---- MODULE Spec2Model ----
(***************************************************************************)
(* Model of the crypto relative-strength scanner: the market data cache    *)
(* and indicator functions (backend/data_fetcher.py), the scorer           *)
(* (backend/analyzer.py), and the cycle orchestrator with its triggers     *)
(* (bot/scheduler.py, backend/main.py).                                    *)
(*                                                                         *)
(* Numbers.  The program computes in IEEE double floats.  A float is       *)
(* modelled as a record [k, n, d]: k = "num" is the exact rational n/d     *)
(* (d > 0, lowest terms), k = "nan" and k = "inf"/"ninf" are the IEEE      *)
(* specials, k = "none" is Python's None.  A value whose k is one of       *)
(* ExceptionKinds stands for that exception propagating out of the         *)
(* expression.  Rounding error of float arithmetic is not modelled.        *)
(***************************************************************************)
EXTENDS Integers, Sequences, FiniteSets, TLC

VARIABLES
    now,          \* wall clock, seconds of the local day (datetime.now())
    cache,        \* CryptoDataFetcher.cache      : key -> payload
    cache_time,   \* CryptoDataFetcher.cache_time : key -> store time
    is_running,   \* CryptoScheduler.is_running
    cycles,       \* the invocations of analyze_and_notify, in trigger order
    overlapped,   \* history: some cycle was started while another was executing
    disturbances, \* history: provider anomalies and clock advances so far
    probe         \* input and result of one call of a pure function

vars == <<now, cache, cache_time, is_running, cycles, overlapped, disturbances, probe>>

----------------------------------------------------------------------------
(* Float arithmetic *)

Abs(x) == IF x < 0 THEN -x ELSE x

RECURSIVE GCD(_, _)
GCD(a, b) == IF b = 0 THEN a ELSE GCD(b, a % b)

Num(n, d) ==
    LET g == GCD(Abs(n), Abs(d))
        s == IF d < 0 THEN -1 ELSE 1
    IN  [k |-> "num", n |-> (s * n) \div g, d |-> (s * d) \div g]

\* (n1/d1) * (n2/d2), cancelling before multiplying; d1 and d2 are not 0
Prod(n1, d1, n2, d2) ==
    LET g1 == GCD(Abs(n1), Abs(d2))
        g2 == GCD(Abs(n2), Abs(d1))
    IN  Num((n1 \div g1) * (n2 \div g2), (d1 \div g2) * (d2 \div g1))

\* (n1/d1) + (n2/d2) over the least common denominator
Sum(n1, d1, n2, d2) ==
    LET g == GCD(Abs(d1), Abs(d2))
    IN  Num(n1 * (d2 \div g) + n2 * (d1 \div g), (d1 \div g) * d2)

None == [k |-> "none", n |-> 0, d |-> 1]
NaN == [k |-> "nan", n |-> 0, d |-> 1]
Inf == [k |-> "inf", n |-> 0, d |-> 1]
NegInf == [k |-> "ninf", n |-> 0, d |-> 1]
ValueError == [k |-> "ValueError", n |-> 0, d |-> 1]
ZeroDivisionError == [k |-> "ZeroDivisionError", n |-> 0, d |-> 1]
TypeError == [k |-> "TypeError", n |-> 0, d |-> 1]

ExceptionKinds == {"ValueError", "ZeroDivisionError", "TypeError"}
IsRaised(v) == v.k \in ExceptionKinds
IsNum(v) == v.k = "num"
IsNone(v) == v.k = "none"
IsNaN(v) == v.k = "nan"

FNeg(a) ==
    CASE a.k = "num" -> Num(-a.n, a.d)
      [] a.k = "inf" -> NegInf
      [] a.k = "ninf" -> Inf
      [] OTHER -> a

FAdd(a, b) ==
    CASE IsRaised(a) -> a
      [] IsRaised(b) -> b
      [] a.k = "none" \/ b.k = "none" -> TypeError
      [] a.k = "nan" \/ b.k = "nan" -> NaN
      [] a.k = "num" /\ b.k = "num" -> Sum(a.n, a.d, b.n, b.d)
      [] a.k = "num" -> b
      [] b.k = "num" -> a
      [] a.k = b.k -> a
      [] OTHER -> NaN

FSub(a, b) == FAdd(a, FNeg(b))

FSign(a) ==
    CASE a.k = "num" -> (IF a.n > 0 THEN 1 ELSE IF a.n < 0 THEN -1 ELSE 0)
      [] a.k = "inf" -> 1
      [] a.k = "ninf" -> -1
      [] OTHER -> 0

FMul(a, b) ==
    CASE IsRaised(a) -> a
      [] IsRaised(b) -> b
      [] a.k = "none" \/ b.k = "none" -> TypeError
      [] a.k = "nan" \/ b.k = "nan" -> NaN
      [] a.k = "num" /\ b.k = "num" -> Prod(a.n, a.d, b.n, b.d)
      [] FSign(a) * FSign(b) > 0 -> Inf
      [] FSign(a) * FSign(b) < 0 -> NegInf
      [] OTHER -> NaN

\* numpy / pandas float64 division: x/0 is inf or nan, never an exception
NpDiv(a, b) ==
    CASE IsRaised(a) -> a
      [] IsRaised(b) -> b
      [] a.k = "none" \/ b.k = "none" -> TypeError
      [] a.k = "nan" \/ b.k = "nan" -> NaN
      [] a.k = "num" /\ b.k = "num" /\ b.n # 0 -> Prod(a.n, a.d, b.d, b.n)
      [] b.k = "num" /\ b.n = 0 ->
            (IF FSign(a) > 0 THEN Inf ELSE IF FSign(a) < 0 THEN NegInf ELSE NaN)
      [] a.k = "num" -> Num(0, 1)
      [] b.k = "num" -> (IF FSign(a) * FSign(b) > 0 THEN Inf ELSE NegInf)
      [] OTHER -> NaN

\* Python float division: a zero divisor raises ZeroDivisionError
PyDiv(a, b) ==
    IF b.k = "num" /\ b.n = 0 /\ ~IsRaised(a) /\ a.k # "none"
    THEN ZeroDivisionError
    ELSE NpDiv(a, b)

\* a < b; every comparison with nan is false, a comparison with None raises
\* (callers test IsNone first where the code would raise)
FLt(a, b) ==
    CASE a.k = "num" /\ b.k = "num" -> a.n * b.d < b.n * a.d
      [] a.k = "nan" \/ b.k = "nan" -> FALSE
      [] a.k = "ninf" -> b.k # "ninf"
      [] b.k = "inf" -> a.k # "inf"
      [] OTHER -> FALSE

FEq(a, b) ==
    CASE a.k = "num" /\ b.k = "num" -> a.n * b.d = b.n * a.d
      [] a.k = "nan" \/ b.k = "nan" -> FALSE
      [] OTHER -> a.k = b.k

FLe(a, b) == FLt(a, b) \/ FEq(a, b)
FGt(a, b) == FLt(b, a)
FGe(a, b) == FLe(b, a)

\* Python truthiness of a float or None: None and 0.0 are falsy, nan is truthy
Truthy(a) == ~(a.k = "none" \/ (a.k = "num" /\ a.n = 0))

\* np.clip(x, lo, hi)
NpClip(x, lo, hi) ==
    IF x.k = "nan" \/ IsRaised(x) THEN x
    ELSE IF FLt(x, lo) THEN lo ELSE IF FGt(x, hi) THEN hi ELSE x

\* round(x, 2): nearest multiple of 0.01, ties to even
Round2(x) ==
    IF x.k # "num" THEN x
    ELSE LET m == 100 * x.n
             fl == m \div x.d
             r == m - fl * x.d
             h == IF 2 * r < x.d THEN fl
                  ELSE IF 2 * r > x.d THEN fl + 1
                  ELSE IF fl % 2 = 0 THEN fl ELSE fl + 1
         IN  Num(h, 100)

----------------------------------------------------------------------------
(* IndicatorEngine: CryptoDataFetcher.calculate_atr / calculate_rsi /      *)
(* calculate_returns.  A DataFrame is [isNone, rows]; a row (candle) is    *)
(* [high, low, close] with whole-number prices.                            *)

NoneDF == [isNone |-> TRUE, rows |-> <<>>]
DF(rows) == [isNone |-> FALSE, rows |-> rows]

RECURSIVE SumOver(_, _, _)
SumOver(f, lo, hi) == IF lo > hi THEN 0 ELSE f[hi] + SumOver(f, lo, hi - 1)

Max2(a, b) == IF a >= b THEN a ELSE b

\* The guard's log message is the f-string
\*   f"... have {len(df) if df else 0}"
\* evaluated before logger.warning is called: None is falsy, and the truth
\* value of a DataFrame (empty or not) raises ValueError.
InsufficientData(df) == IF df.isNone THEN None ELSE ValueError

calculate_atr(df, period) ==
    IF df.isNone \/ Len(df.rows) < period + 1
    THEN InsufficientData(df)
    ELSE LET r == df.rows
             len == Len(r)
             \* tr = max(high - low, |high - close.shift()|, |low - close.shift()|)
             tr == [i \in 2..len |->
                      Max2(r[i].high - r[i].low,
                           Max2(Abs(r[i].high - r[i - 1].close),
                                Abs(r[i].low - r[i - 1].close)))]
         \* tr.rolling(window=period).mean().iloc[-1]
         IN  Num(SumOver(tr, len - period + 1, len), period)

\* the index with the sign of rs reversed in the denominator
calculate_rsi_signed(df, period) ==
    IF df.isNone \/ Len(df.rows) < period + 1
    THEN InsufficientData(df)
    ELSE LET r == df.rows
             len == Len(r)
             deltas == [i \in 2..len |-> r[i].close - r[i - 1].close]
             gains == [i \in 2..len |-> IF deltas[i] > 0 THEN deltas[i] ELSE 0]
             losses == [i \in 2..len |-> IF deltas[i] < 0 THEN -deltas[i] ELSE 0]
             avg_gain == Num(SumOver(gains, len - period + 1, len), period)
             avg_loss == Num(SumOver(losses, len - period + 1, len), period)
             rs == NpDiv(avg_gain, avg_loss)
         IN  FSub(Num(100, 1), NpDiv(Num(100, 1), FSub(Num(1, 1), rs)))

calculate_rsi(df, period) ==
    IF df.isNone \/ Len(df.rows) < period + 1
    THEN InsufficientData(df)
    ELSE LET r == df.rows
             len == Len(r)
             deltas == [i \in 2..len |-> r[i].close - r[i - 1].close]
             gains == [i \in 2..len |-> IF deltas[i] > 0 THEN deltas[i] ELSE 0]
             losses == [i \in 2..len |-> IF deltas[i] < 0 THEN -deltas[i] ELSE 0]
             avg_gain == Num(SumOver(gains, len - period + 1, len), period)
             avg_loss == Num(SumOver(losses, len - period + 1, len), period)
             rs == NpDiv(avg_gain, avg_loss)
         IN  FSub(Num(100, 1), NpDiv(Num(100, 1), FAdd(Num(1, 1), rs)))

RECURSIVE SeqMax(_)
SeqMax(s) == IF Len(s) = 0 THEN 0 ELSE Max2(Head(s), SeqMax(Tail(s)))

SeqToSet(s) == {s[i] : i \in 1..Len(s)}

\* returns measured from the close p candles before the last one
calculate_returns_lagged(df, periods) ==
    IF df.isNone \/ Len(df.rows) < SeqMax(periods)
    THEN [p \in SeqToSet(periods) |-> Num(0, 1)]
    ELSE LET r == df.rows
             len == Len(r)
         IN  [p \in SeqToSet(periods) |->
                IF len > p
                THEN LET start_price == r[len - p].close
                         end_price == r[len].close
                     IN  IF start_price > 0
                         THEN FMul(FSub(NpDiv(Num(end_price, 1), Num(start_price, 1)),
                                        Num(1, 1)),
                                   Num(100, 1))
                         ELSE Num(0, 1)
                ELSE Num(0, 1)]

\* the dict {"return_<p>": value}, as a function of p
calculate_returns(df, periods) ==
    IF df.isNone \/ Len(df.rows) < SeqMax(periods)
    THEN [p \in SeqToSet(periods) |-> Num(0, 1)]
    ELSE LET r == df.rows
             len == Len(r)
         IN  [p \in SeqToSet(periods) |->
                IF len >= p
                THEN LET start_price == r[len - p + 1].close
                         end_price == r[len].close
                     IN  IF start_price > 0
                         THEN FMul(FSub(NpDiv(Num(end_price, 1), Num(start_price, 1)),
                                        Num(1, 1)),
                                   Num(100, 1))
                         ELSE Num(0, 1)
                ELSE Num(0, 1)]

----------------------------------------------------------------------------
(* config.py *)

MIN_LIQUIDITY_USD == 10000000
VOLATILITY_THRESHOLD == 5

SCORE_WEIGHTS ==
    [performance_vs_btc |-> Num(35, 100),
     momentum |-> Num(25, 100),
     volatility_score |-> Num(20, 100),
     liquidity_score |-> Num(10, 100),
     volume_trend |-> Num(10, 100)]

----------------------------------------------------------------------------
(* RelativeStrengthScorer: CryptoAnalyzer.score_coin.  A CoinAnalysis is a  *)
(* record; returns_vs_btc is a function from a set of horizon labels.       *)

Horizons == <<"1h", "4h", "1d", "1w">>

\* a weighting of the horizons other than the program's
HorizonWeightsSwapped ==
    [h \in SeqToSet(Horizons) |->
        CASE h = "1h" -> Num(40, 100)
          [] h = "4h" -> Num(30, 100)
          [] h = "1d" -> Num(15, 100)
          [] h = "1w" -> Num(15, 100)]

HorizonWeights ==
    [h \in SeqToSet(Horizons) |->
        CASE h = "1h" -> Num(15, 100)
          [] h = "4h" -> Num(30, 100)
          [] h = "1d" -> Num(40, 100)
          [] h = "1w" -> Num(15, 100)]

RECURSIVE PerfSum(_, _)
PerfSum(returns_vs_btc, i) ==
    IF i = 0 THEN Num(0, 1)
    ELSE LET tf == Horizons[i]
             rest == PerfSum(returns_vs_btc, i - 1)
         IN  IF tf \in DOMAIN returns_vs_btc
             THEN FAdd(rest, FMul(returns_vs_btc[tf], HorizonWeights[tf]))
             ELSE rest

\* the weighted return left unclipped
NoClip(x) == x

ClipPerf(x) == NpClip(x, Num(-20, 1), Num(20, 1))

\* the momentum sub-score of score_coin
MomentumScore(rsi) ==
    IF IsNone(rsi) THEN Num(0, 1)
    ELSE IF FLt(Num(30, 1), rsi) /\ FLt(rsi, Num(70, 1)) THEN Num(1, 1)
    ELSE IF FGe(rsi, Num(70, 1)) THEN Num(7, 10)
    ELSE IF FLe(rsi, Num(30, 1)) THEN Num(7, 10)
    ELSE Num(0, 1)

score_coin(coin) ==
    LET hundred == Num(100, 1)
        \* 1. performance vs BTC
        perf_score == NpDiv(ClipPerf(PerfSum(coin.returns_vs_btc, Len(Horizons))),
                            Num(20, 1))
        s1 == FMul(FMul(FMul(FAdd(perf_score, Num(1, 1)), Num(1, 2)),
                        SCORE_WEIGHTS.performance_vs_btc), hundred)
        \* 2. momentum
        momentum_score == MomentumScore(coin.rsi)
        s2 == FMul(FMul(momentum_score, SCORE_WEIGHTS.momentum), hundred)
        \* 3. volatility
        volatility_score ==
            IF IsNone(coin.atr_percent) THEN Num(0, 1)
            ELSE IF FLe(Num(1, 1), coin.atr_percent)
                    /\ FLe(coin.atr_percent, Num(VOLATILITY_THRESHOLD, 1)) THEN Num(1, 1)
            ELSE IF FLt(coin.atr_percent, Num(1, 1)) THEN Num(1, 2)
            ELSE Num(3, 10)
        s3 == FMul(FMul(volatility_score, SCORE_WEIGHTS.volatility_score), hundred)
        \* 4. liquidity
        liquidity_score ==
            IF FGe(coin.volume_usd, Num(MIN_LIQUIDITY_USD * 2, 1)) THEN Num(1, 1)
            ELSE IF FGe(coin.volume_usd, Num(MIN_LIQUIDITY_USD, 1)) THEN Num(7, 10)
            ELSE Num(3, 10)
        s4 == FMul(FMul(liquidity_score, SCORE_WEIGHTS.liquidity_score), hundred)
        \* 5. volume trend
        volume_trend_score == Num(1, 2)
        s5 == FMul(FMul(volume_trend_score, SCORE_WEIGHTS.volume_trend), hundred)
    IN  Round2(FAdd(FAdd(FAdd(FAdd(s1, s2), s3), s4), s5))

\* dict.get(key, 0.0)
GetOr0(d, key) == IF key \in DOMAIN d THEN d[key] ELSE Num(0, 1)

\* RSI tags with the band edges 30 and 70 counted as extreme
RsiTagsInclusive(rsi) ==
    IF FLe(rsi, Num(30, 1)) THEN <<"RSI_OVERSOLD">>
    ELSE IF FGe(rsi, Num(70, 1)) THEN <<"RSI_OVERBOUGHT">>
    ELSE <<>>

\* the RSI tags of detect_signals
RsiTags(rsi) ==
    IF FLt(rsi, Num(30, 1)) THEN <<"RSI_OVERSOLD">>
    ELSE IF FGt(rsi, Num(70, 1)) THEN <<"RSI_OVERBOUGHT">>
    ELSE <<>>

(* SignalDetector: CryptoAnalyzer.detect_signals.  The result is            *)
(* [exc, val]: exc = "" and val the list of tags, or exc the exception      *)
(* raised by comparing None with a number.                                  *)
detect_signals(coin, btc_analysis) ==
    LET r == coin.returns_vs_btc
        s1 == IF "1h" \in DOMAIN r /\ FGt(r["1h"], Num(2, 1))
              THEN <<"STRONG_VS_BTC_1H">> ELSE <<>>
        s2 == IF "4h" \in DOMAIN r /\ FGt(r["4h"], Num(5, 1))
              THEN <<"STRONG_VS_BTC_4H">> ELSE <<>>
        s3 == RsiTags(coin.rsi)
        s4 == IF Truthy(coin.atr_percent) /\ FLt(coin.atr_percent, Num(1, 1))
              THEN <<"LOW_VOLATILITY">>
              ELSE IF Truthy(coin.atr_percent) /\ FGt(coin.atr_percent, Num(8, 1))
              THEN <<"HIGH_VOLATILITY">>
              ELSE <<>>
        s5 == IF FLt(coin.volume_usd, Num(MIN_LIQUIDITY_USD, 1))
              THEN <<"LOW_LIQUIDITY">> ELSE <<>>
    IN  IF IsNone(coin.rsi)
        THEN [exc |-> "TypeError", val |-> <<>>]
        ELSE [exc |-> "", val |-> s1 \o s2 \o s3 \o s4 \o s5]

\* a recommendation that is lowered to NEUTRAL for an illiquid asset
generate_recommendation_cautious(score, signals) ==
    IF \E k \in 1..Len(signals) : signals[k] = "LOW_LIQUIDITY" THEN "NEUTRAL"
    ELSE IF FGe(score, Num(80, 1)) THEN "STRONG_BUY"
    ELSE IF FGe(score, Num(70, 1)) THEN "BUY"
    ELSE IF FGe(score, Num(60, 1)) THEN "MILD_BUY"
    ELSE IF FGe(score, Num(40, 1)) THEN "NEUTRAL"
    ELSE IF FGe(score, Num(30, 1)) THEN "MILD_SELL"
    ELSE IF FGe(score, Num(20, 1)) THEN "SELL"
    ELSE "STRONG_SELL"

generate_recommendation(score, signals) ==
    IF FGe(score, Num(80, 1)) THEN "STRONG_BUY"
    ELSE IF FGe(score, Num(70, 1)) THEN "BUY"
    ELSE IF FGe(score, Num(60, 1)) THEN "MILD_BUY"
    ELSE IF FGe(score, Num(40, 1)) THEN "NEUTRAL"
    ELSE IF FGe(score, Num(30, 1)) THEN "MILD_SELL"
    ELSE IF FGe(score, Num(20, 1)) THEN "SELL"
    ELSE "STRONG_SELL"

FAbs(a) == IF FLt(a, Num(0, 1)) THEN FNeg(a) ELSE a

(* PairMatcher: CryptoAnalyzer.analyze_pair / find_best_pairs.  The pair    *)
(* name "A/B" is <<A, B>>; the recommendation "LONG_A_SHORT_B" is           *)
(* [kind |-> "LONG_SHORT", long |-> A, short |-> B].                        *)
NEUTRAL == [kind |-> "NEUTRAL", long |-> "", short |-> ""]
LongShort(a, b) == [kind |-> "LONG_SHORT", long |-> a, short |-> b]

\* analyze_pair whose second branch names the sides as the first does
analyze_pair_one_sided(coin1, coin2) ==
    LET pair_score == NpDiv(FAbs(FSub(coin1.score, coin2.score)), Num(100, 1))
        score_diff == FSub(coin1.score, coin2.score)
        perf_diff_4h == FSub(GetOr0(coin1.returns_vs_btc, "4h"),
                             GetOr0(coin2.returns_vs_btc, "4h"))
        b1 == coin1.symbol.base
        b2 == coin2.symbol.base
        verdict ==
            IF FGt(score_diff, Num(20, 1)) /\ FGt(perf_diff_4h, Num(3, 1))
            THEN <<LongShort(b1, b2), "Strong vs Weak momentum">>
            ELSE IF FLt(score_diff, Num(-20, 1)) /\ FLt(perf_diff_4h, Num(-3, 1))
            THEN <<LongShort(b1, b2), "Weak vs Strong mean reversion">>
            ELSE <<NEUTRAL, "No clear edge">>
    IN  [pair |-> <<b1, b2>>,
         score_difference |-> score_diff,
         performance_difference_4h |-> perf_diff_4h,
         pair_score |-> FMul(pair_score, Num(100, 1)),
         recommendation |-> verdict[1],
         entry_logic |-> verdict[2]]

\* analyze_pair with the thresholds 20 and 3 included in the bands
analyze_pair_inclusive(coin1, coin2) ==
    LET score_diff == FSub(coin1.score, coin2.score)
        perf_diff_4h == FSub(GetOr0(coin1.returns_vs_btc, "4h"),
                             GetOr0(coin2.returns_vs_btc, "4h"))
        b1 == coin1.symbol.base
        b2 == coin2.symbol.base
        verdict ==
            IF FGe(score_diff, Num(20, 1)) /\ FGe(perf_diff_4h, Num(3, 1))
            THEN <<LongShort(b1, b2), "Strong vs Weak momentum">>
            ELSE IF FLe(score_diff, Num(-20, 1)) /\ FLe(perf_diff_4h, Num(-3, 1))
            THEN <<LongShort(b2, b1), "Weak vs Strong mean reversion">>
            ELSE <<NEUTRAL, "No clear edge">>
    IN  [pair |-> <<b1, b2>>,
         score_difference |-> score_diff,
         performance_difference_4h |-> perf_diff_4h,
         pair_score |-> FAbs(score_diff),
         recommendation |-> verdict[1],
         entry_logic |-> verdict[2]]

analyze_pair(coin1, coin2) ==
    LET pair_score == NpDiv(FAbs(FSub(coin1.score, coin2.score)), Num(100, 1))
        score_diff == FSub(coin1.score, coin2.score)
        perf_diff_4h == FSub(GetOr0(coin1.returns_vs_btc, "4h"),
                             GetOr0(coin2.returns_vs_btc, "4h"))
        b1 == coin1.symbol.base
        b2 == coin2.symbol.base
        verdict ==
            IF FGt(score_diff, Num(20, 1)) /\ FGt(perf_diff_4h, Num(3, 1))
            THEN <<LongShort(b1, b2), "Strong vs Weak momentum">>
            ELSE IF FLt(score_diff, Num(-20, 1)) /\ FLt(perf_diff_4h, Num(-3, 1))
            THEN <<LongShort(b2, b1), "Weak vs Strong mean reversion">>
            ELSE <<NEUTRAL, "No clear edge">>
    IN  [pair |-> <<b1, b2>>,
         score_difference |-> score_diff,
         performance_difference_4h |-> perf_diff_4h,
         pair_score |-> FMul(pair_score, Num(100, 1)),
         recommendation |-> verdict[1],
         entry_logic |-> verdict[2]]

\* sorted(seq, key=..., reverse=True): stable, descending; keys[i] is the key of seq[i]
RECURSIVE InsertDesc(_, _, _)
InsertDesc(acc, x, i) ==
    \* acc is a sequence of <<key, element>>, x one more; i scans from the left
    IF i > Len(acc) THEN Append(acc, x)
    ELSE IF FLt(acc[i][1], x[1])
         THEN SubSeq(acc, 1, i - 1) \o <<x>> \o SubSeq(acc, i, Len(acc))
         ELSE InsertDesc(acc, x, i + 1)

RECURSIVE SortDescPairs(_, _)
SortDescPairs(kv, n) ==
    IF n = 0 THEN <<>> ELSE InsertDesc(SortDescPairs(kv, n - 1), kv[n], 1)

SortedByScore(coins) ==
    LET kv == [i \in 1..Len(coins) |-> <<coins[i].score, coins[i]>>]
        out == SortDescPairs(kv, Len(kv))
    IN  [i \in 1..Len(out) |-> out[i][2]]

\* sorted(pairs, key=lambda x: x['score_difference'], reverse=True)
SortedBySignedDiff(pairs) ==
    LET kv == [i \in 1..Len(pairs) |-> <<pairs[i].score_difference, pairs[i]>>]
        out == SortDescPairs(kv, Len(kv))
    IN  [i \in 1..Len(out) |-> out[i][2]]

SortedByAbsDiff(pairs) ==
    LET kv == [i \in 1..Len(pairs) |-> <<FAbs(pairs[i].score_difference), pairs[i]>>]
        out == SortDescPairs(kv, Len(kv))
    IN  [i \in 1..Len(out) |-> out[i][2]]

Min2(a, b) == IF a <= b THEN a ELSE b

\* seq[:n] and seq[-n:]
FirstN(seq, n) == SubSeq(seq, 1, Min2(n, Len(seq)))
LastN(seq, n) == SubSeq(seq, Max2(1, Len(seq) - n + 1), Len(seq))

\* the nested loops without the test that the two assets differ
RECURSIVE PairsFromAll(_, _, _, _)
PairsFromAll(top_coins, bottom_coins, i, j) ==
    IF i > Len(top_coins) THEN <<>>
    ELSE IF j > Len(bottom_coins) THEN PairsFromAll(top_coins, bottom_coins, i + 1, 1)
    ELSE LET pair_analysis == analyze_pair(top_coins[i], bottom_coins[j])
             rest == PairsFromAll(top_coins, bottom_coins, i, j + 1)
         IN  IF pair_analysis.recommendation # NEUTRAL
             THEN <<pair_analysis>> \o rest
             ELSE rest

RECURSIVE PairsFrom(_, _, _, _)
PairsFrom(top_coins, bottom_coins, i, j) ==
    \* the nested loops, from (strong i, weak j) on
    IF i > Len(top_coins) THEN <<>>
    ELSE IF j > Len(bottom_coins) THEN PairsFrom(top_coins, bottom_coins, i + 1, 1)
    ELSE LET strong_coin == top_coins[i]
             weak_coin == bottom_coins[j]
             rest == PairsFrom(top_coins, bottom_coins, i, j + 1)
         IN  IF strong_coin.symbol # weak_coin.symbol
             THEN LET pair_analysis == analyze_pair(strong_coin, weak_coin)
                  IN  IF pair_analysis.recommendation # NEUTRAL
                      THEN <<pair_analysis>> \o rest
                      ELSE rest
             ELSE rest

find_best_pairs(coins_analysis, top_n) ==
    LET sorted_coins == SortedByScore(coins_analysis)
        top_coins == FirstN(sorted_coins, top_n)
        bottom_coins == LastN(sorted_coins, top_n)
        pairs == PairsFrom(top_coins, bottom_coins, 1, 1)
    IN  FirstN(SortedByAbsDiff(pairs), top_n)

CoinAnalysis(symbol, price_usdt, price_btc, returns_vs_btc, rsi, atr_percent, volume_usd, spread_percent) ==
    [symbol |-> symbol, price_usdt |-> price_usdt, price_btc |-> price_btc,
     returns_vs_btc |-> returns_vs_btc, rsi |-> rsi, atr_percent |-> atr_percent,
     volume_usd |-> volume_usd, spread_percent |-> spread_percent,
     score |-> Num(0, 1), rank |-> 0, recommendation |-> "", signals |-> <<>>]

Sym(base, quote) == [base |-> base, quote |-> quote]

NoCoin == CoinAnalysis(Sym("", ""), None, None, [h \in {} |-> Num(0, 1)], None, None,
                       Num(0, 1), Num(0, 1))

----------------------------------------------------------------------------
(* Market data the provider may hand out.  A series is described by        *)
(* [len, base, slope, amp, jump, wick]: close[i] = base + slope*i, plus    *)
(* amp on every second candle counted back from the last one, plus jump on *)
(* the last candle; high/low = close +/- wick.                             *)

DEFAULT_PERIOD == 14
OHLCV_LIMIT == 200

SeriesRows(s) ==
    [i \in 1..s.len |->
        LET c == s.base + s.slope * i + s.amp * (1 - ((s.len - i) % 2))
                   + (IF i = s.len THEN s.jump ELSE 0)
        IN  [high |-> c + s.wick, low |-> c - s.wick, close |-> c]]

Series(len, base, slope, amp, jump, wick) ==
    [len |-> len, base |-> base, slope |-> slope, amp |-> amp, jump |-> jump,
     wick |-> wick]

----------------------------------------------------------------------------
(* The monitored universe and the exchange (ccxt) as the program sees it.   *)

NumCoins == 2          \* the model monitors the first NumCoins coins of the list
MaxDisturbances == 1   \* provider anomalies plus clock advances per behaviour
MaxCycles == 2         \* invocations of analyze_and_notify per behaviour

ALL_COINS == <<"BTC", "ETH", "BNB", "XRP", "ADA", "SOL", "DOGE", "DOT", "MATIC",
               "AVAX", "LTC", "UNI", "LINK", "ATOM", "XLM">>

COINS_TO_MONITOR == SubSeq(ALL_COINS, 1, Min2(NumCoins, Len(ALL_COINS)))

BTC_USDT == Sym("BTC", "USDT")

CoinIndex(base) == CHOOSE i \in 1..Len(ALL_COINS) : ALL_COINS[i] = base

\* What the exchange answers when nothing is wrong: one price history per coin
\* (coin k closes its last candle JumpOf(k) above or below the benchmark's
\* level) and a ticker that agrees with it.
JumpOf(base) ==
    LET k == CoinIndex(base)
    IN  IF k = 1 THEN 0
        ELSE IF k % 2 = 0 THEN 20 - 2 * ((k - 2) \div 2)
        ELSE -(20 - 2 * ((k - 3) \div 2))

MarketSeries(symbol) == Series(OHLCV_LIMIT, 100, 0, 2, JumpOf(symbol.base), 1)
ShortSeries(symbol) == Series(DEFAULT_PERIOD - 4, 100, 0, 2, JumpOf(symbol.base), 1)

LastClose(s) == SeriesRows(s)[s.len].close

MarketVolume(symbol) ==
    LET k == CoinIndex(symbol.base)
    IN  IF k = 1 THEN 5 * MIN_LIQUIDITY_USD
        ELSE IF k % 2 = 0 THEN (5 * MIN_LIQUIDITY_USD) \div 2
        ELSE MIN_LIQUIDITY_USD \div 2

\* exchange.fetch_ticker(symbol): [status, last, bid, ask, quoteVolume]
MarketTicker(symbol) ==
    LET px == IF symbol.quote = "USDT"
              THEN Num(LastClose(MarketSeries(symbol)), 1)
              ELSE Num(LastClose(MarketSeries(symbol)),
                       LastClose(MarketSeries(BTC_USDT)))
    IN  [status |-> "ok", last |-> px, bid |-> px,
         ask |-> FMul(px, Num(1001, 1000)),
         quoteVolume |-> Num(MarketVolume(symbol), 1)]

TickerAnomalies ==
    {[status |-> "error", last |-> None, bid |-> None, ask |-> None, quoteVolume |-> None],
     [status |-> "empty", last |-> None, bid |-> None, ask |-> None, quoteVolume |-> None],
     \* incomplete: no last price
     [status |-> "ok", last |-> None, bid |-> Num(1, 1), ask |-> Num(1, 1),
      quoteVolume |-> Num(0, 1)],
     \* a halted market: every price is zero
     [status |-> "ok", last |-> Num(0, 1), bid |-> Num(0, 1), ask |-> Num(0, 1),
      quoteVolume |-> Num(0, 1)]}

\* exchange.fetch_ohlcv(symbol, timeframe, limit): [status, candles]
NoSeries == Series(0, 0, 0, 0, 0, 0)
MarketOhlcv(symbol) == [status |-> "ok", candles |-> MarketSeries(symbol)]
OhlcvAnomalies(symbol) ==
    {[status |-> "error", candles |-> NoSeries],
     [status |-> "ok", candles |-> NoSeries],          \* an empty list
     [status |-> "ok", candles |-> ShortSeries(symbol)]}

----------------------------------------------------------------------------
(* MarketDataCache: CryptoDataFetcher.fetch_ticker / fetch_ohlcv.           *)

TICKER_TTL == 30
cache_duration == 120

TickerKey(symbol) ==
    [kind |-> "ticker", symbol |-> symbol, timeframe |-> "", limit |-> 0]
OhlcvKey(symbol, timeframe, limit) ==
    [kind |-> "ohlcv", symbol |-> symbol, timeframe |-> timeframe, limit |-> limit]

\* one time-to-live for every kind of data
TTLUniform(key) == TICKER_TTL

TTL(key) == IF key.kind = "ticker" THEN TICKER_TTL ELSE cache_duration

\* the freshness test with an inclusive bound
CacheFreshInclusive(ch, cht, key, t) ==
    /\ key \in DOMAIN ch
    /\ key \in DOMAIN cht
    /\ t - cht[key] <= TTL(key)

\* the "if cache_key in self.cache and ... < ttl" test at time t
CacheFresh(ch, cht, key, t) ==
    /\ key \in DOMAIN ch
    /\ key \in DOMAIN cht
    /\ t - cht[key] < TTL(key)

Put(f, key, v) == [x \in DOMAIN f \cup {key} |-> IF x = key THEN v ELSE f[x]]

\* what fetch_ticker makes of the exchange's answer: ticker_data or None
TickerData(symbol, raw) ==
    IF raw.status # "ok" THEN None
    ELSE IF IsNone(raw.last) \/ IsNone(raw.bid) \/ IsNone(raw.ask) THEN None
    ELSE [symbol |-> symbol,
          last |-> raw.last, bid |-> raw.bid, ask |-> raw.ask,
          volume |-> raw.quoteVolume,
          spread |-> IF Truthy(raw.ask) /\ Truthy(raw.bid) /\ FGt(raw.ask, Num(0, 1))
                     THEN FMul(NpDiv(FSub(raw.ask, raw.bid), raw.ask), Num(100, 1))
                     ELSE Num(0, 1)]

\* what fetch_ohlcv makes of the exchange's answer: a DataFrame or None
OhlcvData(raw) ==
    IF raw.status # "ok" THEN None
    ELSE IF raw.candles.len = 0 THEN None
    ELSE raw.candles

\* the payload fetch_* computes from an answer, and whether it is stored
Payload(key, raw) ==
    IF key.kind = "ticker" THEN TickerData(key.symbol, raw) ELSE OhlcvData(raw)

StoreTime(t) == t

\* a timestamp map that keeps the time of a key's first write
CacheTimeAfterFirst(cht, key, raw, t) ==
    IF Payload(key, raw) = None \/ key \in DOMAIN cht THEN cht
    ELSE Put(cht, key, StoreTime(t))

\* the cache after the provider has answered `raw` for `key` at time t
CacheAfter(ch, key, raw) ==
    IF Payload(key, raw) = None THEN ch ELSE Put(ch, key, Payload(key, raw))
CacheTimeAfter(cht, key, raw, t) ==
    IF Payload(key, raw) = None THEN cht ELSE Put(cht, key, StoreTime(t))

Answers(key) ==
    IF key.kind = "ticker"
    THEN {MarketTicker(key.symbol)} \cup TickerAnomalies
    ELSE {MarketOhlcv(key.symbol)} \cup OhlcvAnomalies(key.symbol)

IsAnomaly(key, raw) ==
    raw # (IF key.kind = "ticker" THEN MarketTicker(key.symbol) ELSE MarketOhlcv(key.symbol))

----------------------------------------------------------------------------
(* CycleOrchestrator: CryptoScheduler.fetch_all_data / analyze_and_notify.  *)
(* A cycle is a coroutine; between two steps of the model it waits for the  *)
(* exchange's answer to the read at c.pc.  Everything the coroutine does    *)
(* between two such waits (cache hits, indicators, scoring, persistence,    *)
(* notifications: none of them yields to the event loop) is one step.       *)
(* c.log records what the cycle did, in order.                              *)

TOP_N == 5
RETURN_PERIODS == <<1, 4, 24, 168>>

\* the three indicator calls of fetch_all_data on one price history
Indicators(s) ==
    LET df == DF(SeriesRows(s))
    IN  [atr |-> calculate_atr(df, DEFAULT_PERIOD),
         rsi |-> calculate_rsi(df, DEFAULT_PERIOD),
         returns |-> calculate_returns(df, RETURN_PERIODS)]

FirstRaised(vals) ==
    \* the first exception among the values, in evaluation order, or None
    LET raised == SelectSeq(vals, IsRaised)
    IN  IF Len(raised) = 0 THEN None ELSE raised[1]

AtrPercent(atr, last) ==
    IF Truthy(atr) THEN FMul(PyDiv(atr, last), Num(100, 1)) ELSE None

\* atr_percent=(atr / last * 100) if atr else None, for an ATR that was returned
AtrPercentOf(atr, last) == IF IsRaised(atr) THEN None ELSE AtrPercent(atr, last)

\* The locals of fetch_all_data are handed from one definition to the next
\* as parameters, in the order in which the code assigns them.

\* btc_analysis = CoinAnalysis(...), or the exception raised before it
BenchmarkAnalysis(btc_data, ind, atr_percent, exc) ==
    [exc |-> exc,
     coin |-> IF exc # None THEN NoCoin
              ELSE CoinAnalysis(BTC_USDT, btc_data.last, Num(1, 1),
                                [h \in {} |-> Num(0, 1)], ind.rsi, atr_percent,
                                btc_data.volume, btc_data.spread)]

BenchmarkAtrPercent(btc_data, ind, atr_percent) ==
    BenchmarkAnalysis(btc_data, ind, atr_percent,
                      FirstRaised(<<ind.atr, ind.rsi, atr_percent>>))

BenchmarkIndicators(btc_data, ind) ==
    BenchmarkAtrPercent(btc_data, ind, AtrPercentOf(ind.atr, btc_data.last))

\* fetch_all_data, the benchmark's indicators and analysis: [exc, coin]
AnalyseBenchmark(btc_data, btc_ohlcv) ==
    BenchmarkIndicators(btc_data, Indicators(btc_ohlcv))

\* the differences taken the other way round
ReturnsVsBtcReversed(returns, btc_returns) ==
    [h \in SeqToSet(Horizons) |->
        LET p == CASE h = "1h" -> 1 [] h = "4h" -> 4
                   [] h = "1d" -> 24 [] h = "1w" -> 168
        IN  FSub(btc_returns[p], returns[p])]

\* returns_vs_btc[timeframe] = coin_returns[...] - btc_returns[...]
ReturnsVsBtc(returns, btc_returns) ==
    [h \in SeqToSet(Horizons) |->
        LET p == CASE h = "1h" -> 1 [] h = "4h" -> 4
                   [] h = "1d" -> 24 [] h = "1w" -> 168
        IN  FSub(returns[p], btc_returns[p])]

\* score, signals and recommendation are there: the analysed coin, or the
\* exception raised on the way
CoinScored(coin0, exc0, score, signals) ==
    [exc |-> IF exc0 # None THEN exc0
             ELSE IF signals.exc # "" THEN TypeError
             ELSE None,
     coin |-> IF exc0 # None \/ signals.exc # "" THEN NoCoin
              ELSE [coin0 EXCEPT
                      !.score = score,
                      !.signals = signals.val,
                      !.recommendation = generate_recommendation(score, signals.val)]]

CoinBuilt(coin0, exc0, btc_analysis) ==
    CoinScored(coin0, exc0, score_coin(coin0), detect_signals(coin0, btc_analysis))

CoinAtrPercent(ticker_usdt, ticker_btc, ind, btc_ind, atr_percent, btc_analysis) ==
    CoinBuilt(CoinAnalysis(ticker_usdt.symbol, ticker_usdt.last,
                           IF ticker_btc = None THEN None ELSE ticker_btc.last,
                           ReturnsVsBtc(ind.returns, btc_ind.returns), ind.rsi,
                           atr_percent, ticker_usdt.volume, ticker_usdt.spread),
              FirstRaised(<<ind.atr, ind.rsi, atr_percent>>),
              btc_analysis)

CoinIndicators(ticker_usdt, ticker_btc, ind, btc_ind, btc_analysis) ==
    CoinAtrPercent(ticker_usdt, ticker_btc, ind, btc_ind,
                   AtrPercentOf(ind.atr, ticker_usdt.last), btc_analysis)

\* fetch_all_data, the body of the universe loop after the three reads and
\* the "continue" test: [exc, coin]
AnalyseCoin(ticker_usdt, ticker_btc, ohlcv, btc_ohlcv, btc_analysis) ==
    CoinIndicators(ticker_usdt, ticker_btc, Indicators(ohlcv), Indicators(btc_ohlcv),
                   btc_analysis)

\* the end of fetch_all_data: sort, rank, match pairs
AssignRanks(sorted) == [k \in 1..Len(sorted) |-> [sorted[k] EXCEPT !.rank = k]]

MatchPairs(ranked) == [all_analysis |-> ranked, top_pairs |-> find_best_pairs(ranked, TOP_N)]

RankAndMatch(all_analysis) == MatchPairs(AssignRanks(SortedByScore(all_analysis)))

IsStrongSignal(coin) ==
    FGe(coin.score, Num(80, 1)) \/ coin.recommendation \in {"STRONG_BUY", "STRONG_SELL"}

\* the alerting rules with the pair threshold 60 included
SavesAndAlertsInclusive(coins, top_pairs) ==
    LET strong_signals == FirstN(SelectSeq(coins, IsStrongSignal), 3)
        saves == <<[ev |-> "save_coin_analysis", n |-> Len(coins)],
                   [ev |-> "save_trading_pairs", n |-> Len(top_pairs)]>>
        alerts == [k \in 1..Len(strong_signals) |->
                     [ev |-> "notify", title |-> "Strong Signal",
                      symbol |-> strong_signals[k].symbol,
                      score |-> strong_signals[k].score,
                      recommendation |-> strong_signals[k].recommendation]]
        pair_alert ==
            IF Len(top_pairs) > 0 /\ FGe(top_pairs[1].pair_score, Num(60, 1))
            THEN <<[ev |-> "trading_signal", pair |-> top_pairs[1].pair,
                    signal |-> top_pairs[1].recommendation,
                    confidence |-> top_pairs[1].pair_score,
                    score_diff |-> top_pairs[1].score_difference,
                    perf_diff |-> top_pairs[1].performance_difference_4h]>>
            ELSE <<>>
    IN  saves \o alerts \o pair_alert

\* analyze_and_notify after fetch_all_data has returned: what is saved and
\* which alerts are sent, in order
SavesAndAlerts(coins, top_pairs) ==
    LET strong_signals == FirstN(SelectSeq(coins, IsStrongSignal), 3)
        saves == <<[ev |-> "save_coin_analysis", n |-> Len(coins)],
                   [ev |-> "save_trading_pairs", n |-> Len(top_pairs)]>>
        alerts == [k \in 1..Len(strong_signals) |->
                     [ev |-> "notify", title |-> "Strong Signal",
                      symbol |-> strong_signals[k].symbol,
                      score |-> strong_signals[k].score,
                      recommendation |-> strong_signals[k].recommendation]]
        pair_alert ==
            IF Len(top_pairs) > 0 /\ FGt(top_pairs[1].pair_score, Num(60, 1))
            THEN <<[ev |-> "trading_signal", pair |-> top_pairs[1].pair,
                    signal |-> top_pairs[1].recommendation,
                    confidence |-> top_pairs[1].pair_score,
                    score_diff |-> top_pairs[1].score_difference,
                    perf_diff |-> top_pairs[1].performance_difference_4h]>>
            ELSE <<>>
    IN  saves \o alerts \o pair_alert

\* what the database does with this cycle's batch: it accepts both saves, or
\* the named save raises (sqlite3.Error; neither save catches anything)
DbOutcomes == {"ok", "save_coin_analysis", "save_trading_pairs"}

NewCycle(trigger, db) ==
    [trigger |-> trigger, db |-> db, pc |-> "btc_ticker", i |-> 0,
     btc_data |-> None, btc_ohlcv |-> None, ticker_usdt |-> None, ticker_btc |-> None,
     btc_analysis |-> NoCoin, all_analysis |-> <<>>, top_pairs |-> <<>>,
     outcome |-> "running", error |-> "", log |-> <<>>]

Executing(c) == c.pc # "done"

KeyAt(c) ==
    CASE c.pc = "btc_ticker" -> TickerKey(BTC_USDT)
      [] c.pc = "btc_ohlcv" -> OhlcvKey(BTC_USDT, "1h", OHLCV_LIMIT)
      [] c.pc = "ticker_usdt" -> TickerKey(Sym(COINS_TO_MONITOR[c.i], "USDT"))
      [] c.pc = "ticker_btc" -> TickerKey(Sym(COINS_TO_MONITOR[c.i], "BTC"))
      [] c.pc = "ohlcv" -> OhlcvKey(Sym(COINS_TO_MONITOR[c.i], "USDT"), "1h", OHLCV_LIMIT)

Logged(c, e) == [c EXCEPT !.log = Append(@, e)]

Hour(t) == (t \div 3600) % 24
Minute(t) == (t \div 60) % 60

\* the exception handler without its notification
AbortSilently(c, exc) == [c EXCEPT !.pc = "done", !.outcome = "aborted", !.error = exc]

\* analyze_and_notify's "except Exception": one error notification, no re-raise
Abort(c, exc) ==
    [Logged(c, [ev |-> "notify", title |-> "System Error", message |-> exc])
        EXCEPT !.pc = "done", !.outcome = "aborted", !.error = exc]

\* housekeeping with the two guards side by side
MaintenanceFlat(t) ==
    (IF Hour(t) = 2 /\ Minute(t) < 5 THEN <<[ev |-> "cleanup_old_data"]>> ELSE <<>>)
        \o (IF Hour(t) = 8 /\ Minute(t) < 5 THEN <<[ev |-> "daily_summary"]>> ELSE <<>>)

\* the housekeeping at the end of analyze_and_notify, at local time t
Maintenance(t) ==
    IF Hour(t) = 2 /\ Minute(t) < 5
    THEN <<[ev |-> "cleanup_old_data"]>>
            \o (IF Hour(t) = 8 /\ Minute(t) < 5
                THEN <<[ev |-> "daily_summary"]>> ELSE <<>>)
    ELSE <<>>

\* a cycle that ranks but hands nothing to persistence
RankedUnsaved(c, ranking, t) ==
    [c EXCEPT !.all_analysis = ranking.all_analysis,
              !.top_pairs = ranking.top_pairs,
              !.log = @ \o Maintenance(t),
              !.pc = "done", !.outcome = "completed"]

\* a save raised: what had been done before it, then the exception handler
SaveRaised(c, ranking, done) ==
    Abort([c EXCEPT !.all_analysis = ranking.all_analysis,
                    !.top_pairs = ranking.top_pairs,
                    !.log = @ \o done \o <<[ev |-> "raise", call |-> c.db]>>],
          "sqlite3.Error")

\* fetch_all_data has returned `ranking`: persist, alert, housekeeping
Ranked(c, ranking, t) ==
    IF c.db = "save_coin_analysis" THEN SaveRaised(c, ranking, <<>>)
    ELSE IF c.db = "save_trading_pairs"
    THEN SaveRaised(c, ranking,
                    <<[ev |-> "save_coin_analysis", n |-> Len(ranking.all_analysis)]>>)
    ELSE [c EXCEPT !.all_analysis = ranking.all_analysis,
                   !.top_pairs = ranking.top_pairs,
                   !.log = @ \o SavesAndAlerts(ranking.all_analysis, ranking.top_pairs)
                             \o Maintenance(t),
                   !.pc = "done", !.outcome = "completed"]

\* the loop is over: rank, match pairs, persist, alert, housekeeping
Finish(c, t) == Ranked(c, RankAndMatch(c.all_analysis), t)

\* "for coin in COINS_TO_MONITOR: if coin == 'BTC': continue", from index i on
RECURSIVE NextCoinIndex(_)
NextCoinIndex(i) ==
    IF i > Len(COINS_TO_MONITOR) THEN i
    ELSE IF COINS_TO_MONITOR[i] = "BTC" THEN NextCoinIndex(i + 1)
    ELSE i

NextCoin(c, t) ==
    LET i == NextCoinIndex(c.i + 1)
    IN  IF i > Len(COINS_TO_MONITOR)
        THEN Finish(c, t)
        ELSE [c EXCEPT !.i = i, !.pc = "ticker_usdt",
                       !.ticker_usdt = None, !.ticker_btc = None]

\* the benchmark's analysis r = [exc, coin] is there
BenchmarkAnalysed(c, r, t) ==
    IF r.exc # None
    THEN Abort(c, r.exc.k)
    ELSE NextCoin([c EXCEPT !.i = 0, !.btc_analysis = r.coin], t)

\* the benchmark phase once both reads have returned
BenchmarkPhase(c, t) ==
    IF c.btc_data = None \/ c.btc_ohlcv = None
    THEN Abort(c, "Failed to fetch BTC data")
    ELSE BenchmarkAnalysed(c, AnalyseBenchmark(c.btc_data, c.btc_ohlcv), t)

\* the analysis r = [exc, coin] of the loop's current coin is there
CoinAnalysed(c, r, t) ==
    IF r.exc # None
    THEN Abort(c, r.exc.k)
    ELSE NextCoin([c EXCEPT !.all_analysis = Append(@, r.coin)], t)

\* one iteration of the universe loop once its three reads have returned
UniversePhase(c, ohlcv, t) ==
    IF c.ticker_usdt = None \/ ohlcv = None
    THEN NextCoin(c, t)
    ELSE CoinAnalysed(c, AnalyseCoin(c.ticker_usdt, c.ticker_btc, ohlcv, c.btc_ohlcv,
                                     c.btc_analysis), t)

\* the read at c.pc has returned v (a payload or None) at time t
Deliver(c, v, t) ==
    CASE c.pc = "btc_ticker" -> [c EXCEPT !.btc_data = v, !.pc = "btc_ohlcv"]
      [] c.pc = "btc_ohlcv" -> BenchmarkPhase([c EXCEPT !.btc_ohlcv = v], t)
      [] c.pc = "ticker_usdt" -> [c EXCEPT !.ticker_usdt = v, !.pc = "ticker_btc"]
      [] c.pc = "ticker_btc" -> [c EXCEPT !.ticker_btc = v, !.pc = "ohlcv"]
      [] c.pc = "ohlcv" -> UniversePhase(c, v, t)

CachedValue(ch, key) == ch[key]

HitEvent(ch, key) == [ev |-> "hit", key |-> key, ret |-> CachedValue(ch, key)]

CallEvent(key) == [ev |-> "call", key |-> key]

\* run the coroutine from the read at c.pc up to its next wait, or to its end
RECURSIVE Run(_, _, _, _)
Run(c, ch, cht, t) ==
    IF ~Executing(c) THEN c
    ELSE LET key == KeyAt(c)
         IN  IF CacheFresh(ch, cht, key, t)
             THEN Run(Deliver(Logged(c, HitEvent(ch, key)),
                              CachedValue(ch, key), t),
                      ch, cht, t)
             ELSE Logged(c, CallEvent(key))

\* the exchange's answer `raw` to the read cycle c waits for arrives at time t
Resume(c, ch, cht, raw, t) ==
    LET key == KeyAt(c)
        v == Payload(key, raw)
        ch2 == CacheAfter(ch, key, raw)
        cht2 == CacheTimeAfter(cht, key, raw, t)
        e == IF v = None
             THEN [ev |-> "fail", key |-> key, at |-> t]
             ELSE [ev |-> "store", key |-> key, at |-> t, ret |-> v]
    IN  Run(Deliver(Logged(c, e), v, t), ch2, cht2, t)

----------------------------------------------------------------------------
(* Pure functions applied to inputs drawn from bounded sets (SpecFn). *)

MaxPrice == 2
MaxSeriesLen == 4
MaxPeriod == 3

CandlePool ==
    {[high |-> c + w, low |-> c - w, close |-> c] : c \in 1..MaxPrice, w \in 0..1}

SmallSeries == UNION {[1..n -> CandlePool] : n \in 0..MaxSeriesLen}

ShapedSeries ==
    {SeriesRows(Series(len, sh[1], sh[2], sh[3], 0, sh[4])) :
        len \in {DEFAULT_PERIOD - 1, DEFAULT_PERIOD, DEFAULT_PERIOD + 1, OHLCV_LIMIT},
        sh \in {<<100, 0, 0, 0>>,     \* flat, no range
                <<100, 0, 0, 1>>,     \* flat closes
                <<100, 1, 0, 1>>,     \* strictly rising
                <<400, -1, 0, 1>>,    \* strictly falling
                <<100, 0, 2, 1>>,     \* zigzag
                <<100, 1, 3, 0>>}}    \* rising with pullbacks

ReturnVectors ==
    {[h \in {} |-> Num(0, 1)]}
        \cup [SeqToSet(Horizons) -> {Num(-50, 1), Num(0, 1), Num(50, 1)}]

RsiValues == {None, NaN, Num(0, 1), Num(25, 1), Num(30, 1), Num(50, 1), Num(70, 1),
              Num(75, 1), Num(100, 1)}
AtrPercentValues == {None, NaN, Num(0, 1), Num(1, 2), Num(1, 1), Num(5, 1), Num(6, 1),
                     Num(8, 1), Num(9, 1)}
VolumeValues == {Num(0, 1), Num(MIN_LIQUIDITY_USD - 1, 1), Num(MIN_LIQUIDITY_USD, 1),
                 Num(2 * MIN_LIQUIDITY_USD, 1)}

ProbeCoins ==
    {CoinAnalysis(Sym("ETH", "USDT"), Num(100, 1), None, rv, rsi, atr, vol, Num(0, 1)) :
        rv \in ReturnVectors, rsi \in RsiValues, atr \in AtrPercentValues,
        vol \in VolumeValues}

NoProbe == [fn |-> "none", df |-> NoneDF, period |-> 0, coin |-> NoCoin, out |-> None]

SeriesProbe(df, period) == [NoProbe EXCEPT !.fn = "series", !.df = df, !.period = period]
CoinProbe(coin) == [NoProbe EXCEPT !.fn = "coin", !.coin = coin]

EmptyMap == [x \in {} |-> 0]

MainIdle ==
    /\ now = 0
    /\ cache = EmptyMap
    /\ cache_time = EmptyMap
    /\ is_running = FALSE
    /\ cycles = <<>>
    /\ overlapped = FALSE
    /\ disturbances = 0

mainvars == <<now, cache, cache_time, is_running, cycles, overlapped, disturbances>>

\* the analyzer singleton and its only attribute
Analyzer == [btc_symbol |-> BTC_USDT]

MaxCalls == 3

\* assets for sequences of score_coin calls
CallCoins(b) ==
    {CoinAnalysis(Sym(b, "USDT"), Num(100, 1), None, rv, rsi, atr, Num(MIN_LIQUIDITY_USD, 1),
                  Num(0, 1)) :
        rv \in {[h \in {} |-> Num(0, 1)],
                [h \in SeqToSet(Horizons) |-> Num(50, 1)],
                [h \in SeqToSet(Horizons) |-> IF h = "4h" THEN Num(-7, 2) ELSE Num(1, 3)]},
        rsi \in {None, NaN, Num(50, 1), Num(70, 1)},
        atr \in {None, Num(0, 1), Num(5, 1)}}

CallsProbe(a, b) ==
    [fn |-> "calls", self |-> Analyzer, given |-> <<a, b>>, coins |-> <<a, b>>,
     history |-> <<>>]

\* price histories around the return horizons
ReturnSeries ==
    {SeriesRows(Series(len, sh[1], sh[2], sh[3], 0, 1)) :
        len \in {3, 4, 24, 100, 167, 168, OHLCV_LIMIT},
        sh \in {<<100, 0, 0>>, <<100, 1, 0>>, <<400, -1, 0>>, <<100, 0, 2>>}}

\* lists of scored assets for the pair matcher and the ranking
MaxListLen == 4

ScoreLevels == <<Num(10, 1), Num(30, 1), Num(90, 1)>>
Return4hLevels == <<Num(-4, 1), Num(0, 1), Num(4, 1)>>

ScoredCoin(base, score, r4h) ==
    [CoinAnalysis(Sym(base, "USDT"), Num(100, 1), None,
                  [h \in SeqToSet(Horizons) |-> IF h = "4h" THEN r4h ELSE Num(0, 1)],
                  Num(50, 1), Num(2, 1), Num(2 * MIN_LIQUIDITY_USD, 1), Num(0, 1))
        EXCEPT !.score = score]

\* the symbol of the k-th asset of a list: all distinct, or the second a
\* repetition of the first
ListSymbol(k, repeated) == IF repeated /\ k = 2 THEN ALL_COINS[2] ELSE ALL_COINS[k + 1]

\* the list described by levels[k] = <<score level, 4h return level>>
ScoredList(levels, repeated) ==
    [k \in 1..Len(levels) |->
        ScoredCoin(ListSymbol(k, repeated), ScoreLevels[levels[k][1]],
                   Return4hLevels[levels[k][2]])]

ListProbe(levels, repeated, top_n) ==
    [fn |-> "list", levels |-> levels, repeated |-> repeated, top_n |-> top_n]

\* two scored assets for analyze_pair: scores 20 and 35 apart, 4h returns
\* 3, 3.01 and 6 apart, or no 4h return at all
PairScores == {Num(30, 1), Num(50, 1), Num(70, 1), Num(85, 1)}
PairReturns ==
    {[h \in {} |-> Num(0, 1)]}
        \cup {[h \in {"4h"} |-> r] : r \in {Num(-3, 1), Num(0, 1), Num(3, 1), Num(301, 100),
                                           Num(6, 1)}}

PairCoin(base, score, returns_vs_btc) ==
    [CoinAnalysis(Sym(base, "USDT"), Num(100, 1), None, returns_vs_btc,
                  Num(50, 1), Num(2, 1), Num(2 * MIN_LIQUIDITY_USD, 1), Num(0, 1))
        EXCEPT !.score = score]

PairProbe(coin1, coin2) == [fn |-> "pair", coin1 |-> coin1, coin2 |-> coin2]

\* scores on and just below every band edge, and signal sets
BandScores ==
    {Num(0, 1), Num(100, 1)}
        \cup UNION {{Num(e, 1), Num(100 * e - 1, 100)} : e \in {20, 30, 40, 60, 70, 80}}
SignalSets == {<<>>, <<"RSI_OVERSOLD", "LOW_LIQUIDITY">>, <<"STRONG_VS_BTC_4H">>}

RecProbe(s1, g1, s2, g2) ==
    [fn |-> "scores", score1 |-> s1, signals1 |-> g1, score2 |-> s2, signals2 |-> g2]

\* price histories of an asset and of the benchmark, by shape
RelativeShapes == {<<100, 0, 0>>, <<100, 1, 0>>, <<400, -1, 0>>, <<100, 0, 2>>, <<50, 2, 0>>}
RelativeLengths == {167, 168, OHLCV_LIMIT}

\* level price histories for one iteration of the universe loop: how far the
\* closes swing, and by how much the asset's last candle closes higher
LoopAmplitudes == {0, 2}
LoopJumps == {-20, 0, 20}
LoopProbe(s, btc) == [fn |-> "loop", s |-> s, btc |-> btc]

RelativeProbe(s, btc) == [fn |-> "histories", s |-> s, btc |-> btc]

\* times of day, to the second, at which a cycle reaches its housekeeping
ClockTimes == {h * 3600 + m * 60 + s : h \in 0..23, m \in 0..59, s \in {0, 59}}
ClockProbe(t, db) == [fn |-> "clock", t |-> t, db |-> db]

InitFn ==
    /\ MainIdle
    /\ \/ \E period \in {1, DEFAULT_PERIOD} : probe = SeriesProbe(NoneDF, period)
       \/ \E rows \in ShapedSeries \cup ReturnSeries :
              probe = SeriesProbe(DF(rows), DEFAULT_PERIOD)
       \/ \E s1 \in PairScores, s2 \in PairScores, r1 \in PairReturns, r2 \in PairReturns :
              probe = PairProbe(PairCoin("ETH", s1, r1), PairCoin("BNB", s2, r2))
       \/ \E s1 \in BandScores, s2 \in BandScores, g1 \in SignalSets, g2 \in SignalSets :
              probe = RecProbe(s1, g1, s2, g2)
       \/ \E len1 \in RelativeLengths, len2 \in RelativeLengths,
              amp1 \in LoopAmplitudes, amp2 \in LoopAmplitudes, jump \in LoopJumps :
              probe = LoopProbe(Series(len1, 100, 0, amp1, jump, 1),
                                Series(len2, 100, 0, amp2, 0, 1))
       \/ \E len1 \in RelativeLengths, len2 \in RelativeLengths,
              sh1 \in RelativeShapes, sh2 \in RelativeShapes :
              probe = RelativeProbe(Series(len1, sh1[1], sh1[2], sh1[3], 0, 1),
                                    Series(len2, sh2[1], sh2[2], sh2[3], 0, 1))
       \/ \E tm \in ClockTimes, db \in DbOutcomes : probe = ClockProbe(tm, db)
       \/ \E a \in CallCoins("ETH"), b \in CallCoins("BNB") : probe = CallsProbe(a, b)
       \/ \E rows \in SmallSeries, period \in 1..MaxPeriod :
              probe = SeriesProbe(DF(rows), period)
       \/ \E coin \in ProbeCoins : probe = CoinProbe(coin)
       \/ \E n \in 0..MaxListLen :
              \E levels \in [1..n -> (1..Len(ScoreLevels)) \X (1..Len(Return4hLevels))],
                 repeated \in BOOLEAN, top_n \in {2, TOP_N} :
                  probe = ListProbe(levels, repeated, top_n)

ProbeRsi ==
    /\ probe.fn = "series"
    /\ probe' = [probe EXCEPT !.fn = "calculate_rsi",
                              !.out = calculate_rsi(probe.df, probe.period)]
    /\ UNCHANGED mainvars

ProbeAtr ==
    /\ probe.fn = "series"
    /\ probe' = [probe EXCEPT !.fn = "calculate_atr",
                              !.out = calculate_atr(probe.df, probe.period)]
    /\ UNCHANGED mainvars

ProbeScore ==
    /\ probe.fn = "coin"
    /\ probe' = [probe EXCEPT !.fn = "score_coin", !.out = score_coin(probe.coin)]
    /\ UNCHANGED mainvars

\* C8: for every non-missing series with fewer than period+1 candles (the
\* empty series included), calculate_rsi and calculate_atr return None; they
\* never raise an exception and never return NaN.
C8_ShortSeriesUnavailable ==
    (/\ probe.fn \in {"calculate_rsi", "calculate_atr"}
     /\ ~probe.df.isNone
     /\ Len(probe.df.rows) < probe.period + 1)
        => probe.out = None

\* no close of the last `period` candles is below the close before it
C9_NoLoss ==
    \A i \in (Len(probe.df.rows) - probe.period + 1)..Len(probe.df.rows) :
        probe.df.rows[i].close >= probe.df.rows[i - 1].close

\* C9: for every series of at least period+1 candles whose average loss over
\* the last `period` candles is zero (all closes rising, or all closes
\* equal), calculate_rsi returns exactly 100; it never returns NaN and never
\* raises a division-by-zero.
C9_ZeroLossRsi ==
    (/\ probe.fn = "calculate_rsi"
     /\ ~probe.df.isNone
     /\ Len(probe.df.rows) >= probe.period + 1
     /\ C9_NoLoss)
        => probe.out = Num(100, 1)

C10_WeightSum ==
    FAdd(FAdd(FAdd(FAdd(SCORE_WEIGHTS.performance_vs_btc, SCORE_WEIGHTS.momentum),
                   SCORE_WEIGHTS.volatility_score),
              SCORE_WEIGHTS.liquidity_score),
         SCORE_WEIGHTS.volume_trend)

\* C10: for every AssetAnalysis input (any returns vector, RSI and ATR%
\* present or unavailable, any non-negative volume), score_coin returns a
\* composite score in [0, 100], and the configured sub-score weights sum to
\* 1.0.
C10_ScoreRange ==
    /\ C10_WeightSum = Num(1, 1)
    /\ probe.fn = "score_coin" =>
          /\ IsNum(probe.out)
          /\ FGe(probe.out, Num(0, 1))
          /\ FLe(probe.out, Num(100, 1))

\* the lowest score: returns clipped at -20, no RSI, no ATR%, thin volume
C10_Witness ==
    /\ probe.fn = "score_coin"
    /\ \A h \in SeqToSet(Horizons) :
          h \in DOMAIN probe.coin.returns_vs_btc
              /\ probe.coin.returns_vs_btc[h] = Num(-50, 1)
    /\ IsNone(probe.coin.rsi)
    /\ IsNone(probe.coin.atr_percent)
    /\ probe.coin.volume_usd = Num(0, 1)
    /\ probe.out = Num(8, 1)

\* a variant of the call that keeps its result in the asset it is given
ScoreCallStoring(self, coin) ==
    [self |-> self, coin |-> [coin EXCEPT !.score = score_coin(coin)],
     ret |-> score_coin(coin)]

\* one call analyzer.score_coin(coin): the analyzer and the argument as the
\* call leaves them, and the value returned
ScoreCall(self, coin) == [self |-> self, coin |-> coin, ret |-> score_coin(coin)]

\* score_coin is called on one of the two assets
ProbeScoreCall ==
    /\ probe.fn = "calls"
    /\ Len(probe.history) < MaxCalls
    /\ \E a \in 1..2 :
          LET r == ScoreCall(probe.self, probe.coins[a])
          IN  probe' = [probe EXCEPT !.self = r.self,
                                     !.coins[a] = r.coin,
                                     !.history = Append(@, [arg |-> a, ret |-> r.ret])]
    /\ UNCHANGED mainvars

C12_P(r) ==
    LET w == FAdd(FAdd(FAdd(FMul(Num(15, 100), GetOr0(r, "1h")),
                            FMul(Num(30, 100), GetOr0(r, "4h"))),
                       FMul(Num(40, 100), GetOr0(r, "1d"))),
                  FMul(Num(15, 100), GetOr0(r, "1w")))
        clipped == IF FLt(w, Num(-20, 1)) THEN Num(-20, 1)
                   ELSE IF FGt(w, Num(20, 1)) THEN Num(20, 1) ELSE w
    IN  NpDiv(FAdd(NpDiv(clipped, Num(20, 1)), Num(1, 1)), Num(2, 1))

C12_M(rsi) ==
    IF IsNone(rsi) THEN {Num(0, 1)}
    ELSE IF FLt(Num(30, 1), rsi) /\ FLt(rsi, Num(70, 1)) THEN {Num(1, 1)}
    ELSE IF FGe(rsi, Num(70, 1)) \/ FLe(rsi, Num(30, 1)) THEN {Num(7, 10)}
    ELSE {Num(0, 1), Num(7, 10), Num(1, 1)}

C12_V(atr_percent) ==
    IF IsNone(atr_percent) THEN {Num(0, 1)}
    ELSE IF FLe(Num(1, 1), atr_percent) /\ FLe(atr_percent, Num(VOLATILITY_THRESHOLD, 1))
    THEN {Num(1, 1)}
    ELSE IF FLt(atr_percent, Num(1, 1)) THEN {Num(1, 2)}
    ELSE IF FGt(atr_percent, Num(VOLATILITY_THRESHOLD, 1)) THEN {Num(3, 10)}
    ELSE {Num(0, 1), Num(3, 10), Num(1, 2), Num(1, 1)}

C12_L(volume) ==
    IF FGe(volume, Num(2 * MIN_LIQUIDITY_USD, 1)) THEN Num(1, 1)
    ELSE IF FGe(volume, Num(MIN_LIQUIDITY_USD, 1)) THEN Num(7, 10)
    ELSE Num(3, 10)

C12_Reference(coin) ==
    {Round2(FMul(Num(100, 1),
                 FAdd(FAdd(FAdd(FAdd(FMul(Num(35, 100), C12_P(coin.returns_vs_btc)),
                                     FMul(Num(25, 100), m)),
                                FMul(Num(20, 100), v)),
                           FMul(Num(10, 100), C12_L(coin.volume_usd))),
                      FMul(Num(10, 100), Num(1, 2))))) :
        m \in C12_M(coin.rsi), v \in C12_V(coin.atr_percent)}

\* C12: score_coin equals the reference formula
\* 100 * (0.35*P + 0.25*M + 0.20*V + 0.10*L + 0.10*0.5) rounded to 2 decimals,
\* with P the clipped, rescaled weighted return, M from the RSI bands, V from
\* the ATR% bands and L from the volume bands.
C12_ScoreEqualsReference ==
    probe.fn = "score_coin" => probe.out \in C12_Reference(probe.coin)

\* a scored asset whose weighted return is clipped, with RSI and ATR% on a
\* band edge: 35 + 17.5 + 20 + 7 + 5
C12_Witness ==
    /\ probe.fn = "score_coin"
    /\ \A h \in SeqToSet(Horizons) :
          h \in DOMAIN probe.coin.returns_vs_btc
              /\ probe.coin.returns_vs_btc[h] = Num(50, 1)
    /\ probe.coin.rsi = Num(70, 1)
    /\ probe.coin.atr_percent = Num(VOLATILITY_THRESHOLD, 1)
    /\ probe.coin.volume_usd = Num(MIN_LIQUIDITY_USD, 1)
    /\ probe.out = Num(845, 10)

ProbeReturns ==
    /\ probe.fn = "series"
    /\ probe' = [probe EXCEPT !.fn = "calculate_returns",
                              !.out = calculate_returns(probe.df, RETURN_PERIODS)]
    /\ UNCHANGED mainvars

\* (close[-1] / close[-N] - 1) * 100
C13_ReturnOver(rows, N) ==
    FMul(FSub(NpDiv(Num(rows[Len(rows)].close, 1), Num(rows[Len(rows) - N + 1].close, 1)),
              Num(1, 1)),
         Num(100, 1))

\* C13: for each horizon N in {1, 4, 24, 168} and every series,
\* calculate_returns gives (close[-1]/close[-N] - 1) * 100 when the series
\* has at least N candles, and the sentinel 0.0 for that horizon when it has
\* fewer than N candles.
C13_ReturnPerHorizon ==
    (probe.fn = "calculate_returns" /\ ~probe.df.isNone) =>
        \A N \in SeqToSet(RETURN_PERIODS) :
            IF Len(probe.df.rows) >= N
            THEN probe.out[N] = C13_ReturnOver(probe.df.rows, N)
            ELSE probe.out[N] = Num(0, 1)

ProbePairs ==
    /\ probe.fn = "list"
    /\ LET coins == ScoredList(probe.levels, probe.repeated)
       IN  probe' = [fn |-> "find_best_pairs", coins |-> coins, top_n |-> probe.top_n,
                     out |-> find_best_pairs(coins, probe.top_n)]
    /\ UNCHANGED mainvars

\* C14: find_best_pairs never returns a candidate whose strong and weak
\* symbols are the same, for every input list, including lists with fewer
\* than 2*top_n assets, where the top and bottom selections overlap.
C14_NoSelfPair ==
    probe.fn = "find_best_pairs" =>
        \A k \in 1..Len(probe.out) :
            /\ probe.out[k].pair[1] # probe.out[k].pair[2]
            /\ probe.out[k].recommendation.long # probe.out[k].recommendation.short

\* candidates returned for a list shorter than 2*top_n in which one symbol
\* occurs twice with scores more than 20 apart
C14_Witness ==
    /\ probe.fn = "find_best_pairs"
    /\ Len(probe.coins) < 2 * probe.top_n
    /\ Len(probe.coins) >= 2
    /\ probe.coins[1].symbol = probe.coins[2].symbol
    /\ FGt(FSub(probe.coins[1].score, probe.coins[2].score), Num(20, 1))
    /\ FGt(FSub(probe.coins[1].returns_vs_btc["4h"], probe.coins[2].returns_vs_btc["4h"]),
           Num(3, 1))
    /\ Len(probe.out) > 0

ProbeAnalyzePair ==
    /\ probe.fn = "pair"
    /\ probe' = [fn |-> "analyze_pair", coin1 |-> probe.coin1, coin2 |-> probe.coin2,
                 out |-> analyze_pair(probe.coin1, probe.coin2)]
    /\ UNCHANGED mainvars

C15_ScoreDiff == FSub(probe.coin1.score, probe.coin2.score)

C15_PerfDiff ==
    FSub(IF "4h" \in DOMAIN probe.coin1.returns_vs_btc
         THEN probe.coin1.returns_vs_btc["4h"] ELSE Num(0, 1),
         IF "4h" \in DOMAIN probe.coin2.returns_vs_btc
         THEN probe.coin2.returns_vs_btc["4h"] ELSE Num(0, 1))

\* C15: analyze_pair(strong, weak) classifies by score_diff = strong.score -
\* weak.score and the 4h performance differential: score_diff > 20 and
\* perf_diff > 3 gives LONG_<strong>_SHORT_<weak>, "Strong vs Weak momentum";
\* score_diff < -20 and perf_diff < -3 gives LONG_<weak>_SHORT_<strong>,
\* "Weak vs Strong mean reversion"; every other input, the boundary values
\* 20 and 3 included, gives NEUTRAL.
C15_PairClassification ==
    probe.fn = "analyze_pair" =>
        LET strong == probe.coin1.symbol.base
            weak == probe.coin2.symbol.base
        IN  /\ probe.out.score_difference = C15_ScoreDiff
            /\ probe.out.performance_difference_4h = C15_PerfDiff
            /\ IF FGt(C15_ScoreDiff, Num(20, 1)) /\ FGt(C15_PerfDiff, Num(3, 1))
               THEN /\ probe.out.recommendation = LongShort(strong, weak)
                    /\ probe.out.entry_logic = "Strong vs Weak momentum"
               ELSE IF FLt(C15_ScoreDiff, Num(-20, 1)) /\ FLt(C15_PerfDiff, Num(-3, 1))
               THEN /\ probe.out.recommendation = LongShort(weak, strong)
                    /\ probe.out.entry_logic = "Weak vs Strong mean reversion"
               ELSE probe.out.recommendation = NEUTRAL

\* scores 85 and 50 with a 4h differential of +6 give LONG_A_SHORT_B
C15_Witness ==
    /\ probe.fn = "analyze_pair"
    /\ probe.coin1.score = Num(85, 1)
    /\ probe.coin2.score = Num(50, 1)
    /\ C15_PerfDiff = Num(6, 1)
    /\ probe.out.recommendation = LongShort("ETH", "BNB")
    /\ probe.out.entry_logic = "Strong vs Weak momentum"

C16_Top == FirstN(SortedByScore(probe.coins), probe.top_n)
C16_Bottom == LastN(SortedByScore(probe.coins), probe.top_n)

\* the (top-N x bottom-N) combinations of two different symbols whose
\* analysis is not NEUTRAL
C16_Candidates ==
    {c \in (1..Len(C16_Top)) \X (1..Len(C16_Bottom)) :
        /\ C16_Top[c[1]].symbol # C16_Bottom[c[2]].symbol
        /\ analyze_pair(C16_Top[c[1]], C16_Bottom[c[2]]).recommendation # NEUTRAL}

C16_AbsDiff(pair) ==
    IF FLt(pair.score_difference, Num(0, 1)) THEN FNeg(pair.score_difference)
    ELSE pair.score_difference

\* C16: the list returned by find_best_pairs contains no NEUTRAL candidate,
\* is ordered by |score_diff| non-increasing, has at most top_n entries, and
\* its entries are the candidates with the largest |score_diff| among all
\* non-NEUTRAL (top-N x bottom-N) combinations.
C16_BestPairs ==
    probe.fn = "find_best_pairs" =>
        /\ \A k \in 1..Len(probe.out) : probe.out[k].recommendation # NEUTRAL
        /\ \A k \in 1..(Len(probe.out) - 1) :
              FGe(C16_AbsDiff(probe.out[k]), C16_AbsDiff(probe.out[k + 1]))
        /\ Len(probe.out) <= probe.top_n
        /\ Len(probe.out) = Min2(probe.top_n, Cardinality(C16_Candidates))
        /\ \A k \in 1..Len(probe.out) :
              \E c \in C16_Candidates :
                  probe.out[k] = analyze_pair(C16_Top[c[1]], C16_Bottom[c[2]])
        /\ \A c \in C16_Candidates :
              LET a == analyze_pair(C16_Top[c[1]], C16_Bottom[c[2]])
              IN  \/ \E k \in 1..Len(probe.out) : probe.out[k] = a
                  \/ FLe(C16_AbsDiff(a), C16_AbsDiff(probe.out[Len(probe.out)]))

\* more candidates than top_n, of different strengths: the list is cut and a
\* strictly weaker candidate is left out
C16_Witness ==
    /\ probe.fn = "find_best_pairs"
    /\ Cardinality(C16_Candidates) > probe.top_n
    /\ Len(probe.out) = probe.top_n
    /\ \E c \in C16_Candidates :
          FLt(C16_AbsDiff(analyze_pair(C16_Top[c[1]], C16_Bottom[c[2]])),
              C16_AbsDiff(probe.out[Len(probe.out)]))

\* the end of fetch_all_data on a list of analysed assets
ProbeRank ==
    /\ probe.fn = "list"
    /\ probe.top_n = TOP_N
    /\ LET coins == ScoredList(probe.levels, probe.repeated)
       IN  probe' = [fn |-> "rank", coins |-> coins,
                     out |-> RankAndMatch(coins).all_analysis]
    /\ UNCHANGED mainvars

\* C17: after a completed cycle the ranked list is in non-increasing score
\* order and carries a 1-based dense rank: the best asset has rank 1, ranks
\* have no gaps, an asset with a strictly higher score has a strictly smaller
\* rank, and assets with equal scores share the same rank.
C17_DenseRank ==
    probe.fn = "rank" =>
        LET n == Len(probe.out)
        IN  /\ \A k \in 1..(n - 1) : FGe(probe.out[k].score, probe.out[k + 1].score)
            /\ n > 0 => probe.out[1].rank = 1
            /\ \A k \in 1..(n - 1) :
                  probe.out[k + 1].rank \in {probe.out[k].rank, probe.out[k].rank + 1}
            /\ \A i \in 1..n, j \in 1..n :
                  /\ FGt(probe.out[i].score, probe.out[j].score)
                        => probe.out[i].rank < probe.out[j].rank
                  /\ FEq(probe.out[i].score, probe.out[j].score)
                        => probe.out[i].rank = probe.out[j].rank

\* generate_recommendation is called on two (score, signals) inputs
ProbeRecommendation ==
    /\ probe.fn = "scores"
    /\ probe' = [fn |-> "generate_recommendation",
                 score1 |-> probe.score1, signals1 |-> probe.signals1,
                 score2 |-> probe.score2, signals2 |-> probe.signals2,
                 out1 |-> generate_recommendation(probe.score1, probe.signals1),
                 out2 |-> generate_recommendation(probe.score2, probe.signals2)]
    /\ UNCHANGED mainvars

C18_Bands ==
    <<"STRONG_SELL", "SELL", "MILD_SELL", "NEUTRAL", "MILD_BUY", "BUY", "STRONG_BUY">>

C18_BandIndex(r) == CHOOSE k \in 1..Len(C18_Bands) : C18_Bands[k] = r

C18_BandOf(score) ==
    CASE FGe(score, Num(80, 1)) -> "STRONG_BUY"
      [] FLt(score, Num(80, 1)) /\ FGe(score, Num(70, 1)) -> "BUY"
      [] FLt(score, Num(70, 1)) /\ FGe(score, Num(60, 1)) -> "MILD_BUY"
      [] FLt(score, Num(60, 1)) /\ FGe(score, Num(40, 1)) -> "NEUTRAL"
      [] FLt(score, Num(40, 1)) /\ FGe(score, Num(30, 1)) -> "MILD_SELL"
      [] FLt(score, Num(30, 1)) /\ FGe(score, Num(20, 1)) -> "SELL"
      [] FLt(score, Num(20, 1)) -> "STRONG_SELL"

ProbeSignals ==
    /\ probe.fn = "coin"
    /\ probe' = [probe EXCEPT !.fn = "detect_signals",
                              !.out = detect_signals(probe.coin, NoCoin)]
    /\ UNCHANGED mainvars

C19_Has(tag) == \E k \in 1..Len(probe.out.val) : probe.out.val[k] = tag

\* C19: for every asset with a defined RSI, detect_signals emits the
\* oversold tag exactly when RSI < 30 and the overbought tag exactly when
\* RSI > 70 (never both), and whenever 30 < RSI < 70 neither tag is present
\* and the momentum sub-score used by score_coin is 1.0.
C19_RsiTags ==
    (probe.fn = "detect_signals" /\ ~IsNone(probe.coin.rsi)) =>
        /\ probe.out.exc = ""
        /\ C19_Has("RSI_OVERSOLD") <=> FLt(probe.coin.rsi, Num(30, 1))
        /\ C19_Has("RSI_OVERBOUGHT") <=> FGt(probe.coin.rsi, Num(70, 1))
        /\ ~(C19_Has("RSI_OVERSOLD") /\ C19_Has("RSI_OVERBOUGHT"))
        /\ (FGt(probe.coin.rsi, Num(30, 1)) /\ FLt(probe.coin.rsi, Num(70, 1)))
              => /\ ~C19_Has("RSI_OVERSOLD")
                 /\ ~C19_Has("RSI_OVERBOUGHT")
                 /\ MomentumScore(probe.coin.rsi) = Num(1, 1)

\* an asset with RSI 25 tagged oversold
C19_Witness ==
    /\ probe.fn = "detect_signals"
    /\ probe.coin.rsi = Num(25, 1)
    /\ C19_Has("RSI_OVERSOLD")
    /\ ~C19_Has("RSI_OVERBOUGHT")

C20_Has(tag) == \E k \in 1..Len(probe.out.val) : probe.out.val[k] = tag

C20_Return(h) ==
    IF h \in DOMAIN probe.coin.returns_vs_btc THEN probe.coin.returns_vs_btc[h] ELSE None

\* C20: detect_signals returns a duplicate-free set of tags that contains the
\* low-volatility tag exactly when ATR% is defined and < 1.0 (ATR% = 0
\* included), the high-volatility tag exactly when ATR% > 8.0, the
\* low-liquidity tag exactly when the volume is below the configured minimum,
\* the 1h strength tag exactly when the 1h relative return > 2 and the 4h
\* strength tag exactly when the 4h relative return > 5.
C20_SignalTags ==
    (probe.fn = "detect_signals" /\ probe.out.exc = "") =>
        /\ \A i \in 1..Len(probe.out.val), j \in 1..Len(probe.out.val) :
              probe.out.val[i] = probe.out.val[j] => i = j
        /\ C20_Has("LOW_VOLATILITY")
              <=> (~IsNone(probe.coin.atr_percent)
                     /\ FLt(probe.coin.atr_percent, Num(1, 1)))
        /\ C20_Has("HIGH_VOLATILITY")
              <=> (~IsNone(probe.coin.atr_percent)
                     /\ FGt(probe.coin.atr_percent, Num(8, 1)))
        /\ C20_Has("LOW_LIQUIDITY")
              <=> FLt(probe.coin.volume_usd, Num(MIN_LIQUIDITY_USD, 1))
        /\ C20_Has("STRONG_VS_BTC_1H")
              <=> (~IsNone(C20_Return("1h")) /\ FGt(C20_Return("1h"), Num(2, 1)))
        /\ C20_Has("STRONG_VS_BTC_4H")
              <=> (~IsNone(C20_Return("4h")) /\ FGt(C20_Return("4h"), Num(5, 1)))

HorizonPeriod(h) ==
    CASE h = "1h" -> 1 [] h = "4h" -> 4 [] h = "1d" -> 24 [] h = "1w" -> 168

\* the returns of both histories and their differences, as fetch_all_data
\* computes them
ProbeRelative ==
    /\ probe.fn = "histories"
    /\ probe' = [fn |-> "returns_vs_btc", s |-> probe.s, btc |-> probe.btc,
                 returns |-> calculate_returns(DF(SeriesRows(probe.s)), RETURN_PERIODS),
                 btc_returns |-> calculate_returns(DF(SeriesRows(probe.btc)),
                                                   RETURN_PERIODS),
                 out |-> ReturnsVsBtc(
                            calculate_returns(DF(SeriesRows(probe.s)), RETURN_PERIODS),
                            calculate_returns(DF(SeriesRows(probe.btc)), RETURN_PERIODS))]
    /\ UNCHANGED mainvars

C22_StrictlyRising(s) ==
    \A i \in 2..s.len : SeriesRows(s)[i].close > SeriesRows(s)[i - 1].close

\* C22: the benchmark-relative return of an asset is, for each horizon, the
\* asset's raw return minus the benchmark's raw return over that horizon;
\* hence an asset whose series is identical to the benchmark's has all four
\* entries zero, and a series of exactly 200 candles with strictly rising
\* closes has return_1w > 0.
C22_RelativeReturn ==
    probe.fn = "returns_vs_btc" =>
        /\ DOMAIN probe.out = SeqToSet(Horizons)
        /\ \A h \in SeqToSet(Horizons) :
              /\ FAdd(probe.out[h], probe.btc_returns[HorizonPeriod(h)])
                    = probe.returns[HorizonPeriod(h)]
              /\ FGt(probe.returns[HorizonPeriod(h)], probe.btc_returns[HorizonPeriod(h)])
                    <=> FGt(probe.out[h], Num(0, 1))
        /\ probe.s = probe.btc => \A h \in SeqToSet(Horizons) : probe.out[h] = Num(0, 1)
        /\ (probe.s.len = 200 /\ C22_StrictlyRising(probe.s))
              => FGt(probe.returns[168], Num(0, 1))

\* 200 strictly rising candles compared with a falling benchmark: positive
\* weekly return and a positive weekly differential
C22_Witness ==
    /\ probe.fn = "returns_vs_btc"
    /\ probe.s.len = 200
    /\ probe.s.slope > 0
    /\ probe.btc.slope < 0
    /\ FGt(probe.returns[168], Num(0, 1))
    /\ FGt(probe.out["1w"], probe.returns[168])

C29_Given ==
    IF probe.fn = "find_best_pairs" THEN probe.coins ELSE <<probe.coin1, probe.coin2>>

C29_Returned ==
    IF probe.fn = "find_best_pairs" THEN probe.out
    ELSE IF probe.out.recommendation = NEUTRAL THEN <<>> ELSE <<probe.out>>

C29_DistinctSymbols ==
    \A a, b \in 1..Len(C29_Given) : a # b => C29_Given[a].symbol # C29_Given[b].symbol

\* the given asset with this base symbol
C29_Asset(base) ==
    C29_Given[CHOOSE a \in 1..Len(C29_Given) : C29_Given[a].symbol.base = base]

C29_Return4h(coin) ==
    IF "4h" \in DOMAIN coin.returns_vs_btc THEN coin.returns_vs_btc["4h"] ELSE Num(0, 1)

\* C29: in every returned pair candidate, whichever classification branch
\* produced it, the symbol on the LONG side has a composite score more than 20
\* points above the symbol on the SHORT side and a 4h benchmark-relative
\* return more than 3 points above it; find_best_pairs never recommends going
\* long the lower-scored asset.
C29_LongSideStronger ==
    (probe.fn \in {"find_best_pairs", "analyze_pair"} /\ C29_DistinctSymbols) =>
        \A k \in 1..Len(C29_Returned) :
            LET rec == C29_Returned[k].recommendation
            IN  /\ rec.kind = "LONG_SHORT"
                /\ FGt(FSub(C29_Asset(rec.long).score, C29_Asset(rec.short).score),
                       Num(20, 1))
                /\ FGt(FSub(C29_Return4h(C29_Asset(rec.long)),
                            C29_Return4h(C29_Asset(rec.short))),
                       Num(3, 1))

\* find_best_pairs returned candidates from both branches
C29_Witness ==
    /\ probe.fn = "find_best_pairs"
    /\ C29_DistinctSymbols
    /\ \E a, b \in 1..Len(probe.out) :
          /\ probe.out[a].entry_logic = "Strong vs Weak momentum"
          /\ probe.out[b].entry_logic = "Weak vs Strong mean reversion"
          /\ probe.out[b].recommendation.long = probe.out[b].pair[2]

\* the ticker that agrees with a price history
HistoryTicker(symbol, s) ==
    [symbol |-> symbol, last |-> Num(LastClose(s), 1), bid |-> Num(LastClose(s), 1),
     ask |-> Num(LastClose(s), 1), volume |-> Num(2 * MIN_LIQUIDITY_USD, 1),
     spread |-> Num(0, 1)]

LoopBody(s, btc, btc_result) ==
    IF btc_result.exc # None THEN btc_result
    ELSE AnalyseCoin(HistoryTicker(Sym("ETH", "USDT"), s), None, s, btc, btc_result.coin)

\* fetch_all_data on the two histories: the benchmark's analysis and one
\* iteration of the universe loop
ProbeLoopBody ==
    /\ probe.fn = "loop"
    /\ probe' = [fn |-> "fetch_all_data", s |-> probe.s, btc |-> probe.btc,
                 returns |-> calculate_returns(DF(SeriesRows(probe.s)), RETURN_PERIODS),
                 out |-> LoopBody(probe.s, probe.btc,
                                  AnalyseBenchmark(HistoryTicker(BTC_USDT, probe.btc),
                                                   probe.btc))]
    /\ UNCHANGED mainvars

\* C30: for every series the 1-period return computed by calculate_returns is
\* 0 (the last close is compared with itself), so the 1h benchmark-relative
\* return of every asset the orchestrator analyses is 0 and the tag
\* STRONG_VS_BTC_1H is never in the signal set it produces.
C30_NoHourlyReturn ==
    /\ (probe.fn = "calculate_returns" /\ 1 \in DOMAIN probe.out)
          => probe.out[1] = Num(0, 1)
    /\ probe.fn = "returns_vs_btc" =>
          probe.returns[1] = Num(0, 1) /\ probe.out["1h"] = Num(0, 1)
    /\ (probe.fn = "fetch_all_data" /\ probe.out.exc = None) =>
          /\ probe.returns[1] = Num(0, 1)
          /\ probe.out.coin.returns_vs_btc["1h"] = Num(0, 1)
          /\ \A k \in 1..Len(probe.out.coin.signals) :
                probe.out.coin.signals[k] # "STRONG_VS_BTC_1H"

\* an asset whose last candle closed well above the one before it, against
\* a flat benchmark: tagged for the 4h horizon, not for the 1h horizon
C30_Witness ==
    /\ probe.fn = "fetch_all_data"
    /\ probe.out.exc = None
    /\ probe.s.jump = 20
    /\ probe.s.len = 200
    /\ probe.btc.slope = 0
    /\ probe.out.coin.returns_vs_btc["1h"] = Num(0, 1)
    /\ \E k \in 1..Len(probe.out.coin.signals) :
          probe.out.coin.signals[k] = "STRONG_VS_BTC_4H"

\* the list as the universe loop leaves it: every asset with its recommendation
Recommended(coins) ==
    [k \in 1..Len(coins) |->
        [coins[k] EXCEPT !.recommendation =
                            generate_recommendation(coins[k].score, coins[k].signals)]]

AlertsFor(ranking) ==
    [fn |-> "analyze_and_notify", coins |-> ranking.all_analysis,
     top_pairs |-> ranking.top_pairs,
     out |-> SavesAndAlerts(ranking.all_analysis, ranking.top_pairs)]

\* the end of fetch_all_data and the saves and alerts of analyze_and_notify
ProbeAlerts ==
    /\ probe.fn = "list"
    /\ probe.top_n = TOP_N
    /\ probe' = AlertsFor(RankAndMatch(Recommended(ScoredList(probe.levels,
                                                               probe.repeated))))
    /\ UNCHANGED mainvars

C25_Alerted ==
    SelectSeq(probe.out, LAMBDA e : e.ev = "notify" /\ e.title = "Strong Signal")

\* the ranked assets scoring 80 or more, best first
C25_Eligible == SelectSeq(probe.coins, LAMBDA c : FGe(c.score, Num(80, 1)))

\* C25: in every completed cycle, strong-signal alerts are sent for at most
\* three assets, every asset alerted has a composite score >= 80, and the
\* assets alerted are the highest-ranked ones satisfying that condition.
C25_StrongSignalAlerts ==
    probe.fn = "analyze_and_notify" =>
        /\ Len(C25_Alerted) <= 3
        /\ \A k \in 1..Len(C25_Alerted) : FGe(C25_Alerted[k].score, Num(80, 1))
        /\ Len(C25_Alerted) = Min2(3, Len(C25_Eligible))
        /\ \A k \in 1..Len(C25_Alerted) :
              C25_Alerted[k].symbol = C25_Eligible[k].symbol

C26_PairAlerts == SelectSeq(probe.out, LAMBDA e : e.ev = "trading_signal")

C26_Abs(x) == IF FLt(x, Num(0, 1)) THEN FSub(Num(0, 1), x) ELSE x

\* C26: in every completed cycle at most one pair alert is sent, and it is
\* sent exactly when the pair list is non-empty and its first candidate (the
\* one with the largest |score_diff|) has pair score > 60, where pair score
\* equals |score_diff|; the alert carries that candidate's recommendation,
\* score difference and 4h performance difference.
C26_PairAlert ==
    probe.fn = "analyze_and_notify" =>
        /\ Len(C26_PairAlerts) <= 1
        /\ \A k \in 1..Len(probe.top_pairs) :
              /\ probe.top_pairs[k].pair_score = C26_Abs(probe.top_pairs[k].score_difference)
              /\ FGe(C26_Abs(probe.top_pairs[1].score_difference),
                     C26_Abs(probe.top_pairs[k].score_difference))
        /\ Len(C26_PairAlerts) = 1
              <=> /\ Len(probe.top_pairs) > 0
                  /\ FGt(C26_Abs(probe.top_pairs[1].score_difference), Num(60, 1))
        /\ \A k \in 1..Len(C26_PairAlerts) :
              /\ C26_PairAlerts[k].signal = probe.top_pairs[1].recommendation
              /\ C26_PairAlerts[k].score_diff = probe.top_pairs[1].score_difference
              /\ C26_PairAlerts[k].perf_diff = probe.top_pairs[1].performance_difference_4h
              /\ C26_PairAlerts[k].pair = probe.top_pairs[1].pair

\* several candidates, the first 80 points apart: one alert, for the first
C26_Witness ==
    /\ probe.fn = "analyze_and_notify"
    /\ Len(probe.top_pairs) > 1
    /\ C26_Abs(probe.top_pairs[1].score_difference) = Num(80, 1)
    /\ Len(C26_PairAlerts) = 1
    /\ C26_PairAlerts[1].signal = probe.top_pairs[1].recommendation

\* analyze_and_notify from the return of fetch_all_data (with an empty
\* universe) to its end, at time probe.t
ProbeHousekeeping ==
    /\ probe.fn = "clock"
    /\ probe' = [fn |-> "housekeeping", t |-> probe.t, db |-> probe.db,
                 out |-> Ranked(NewCycle("interval", probe.db), RankAndMatch(<<>>),
                                probe.t)]
    /\ UNCHANGED mainvars

C27_Did(ev) == \E k \in 1..Len(probe.out.log) : probe.out.log[k].ev = ev

C27_CleanupTime == (probe.t \div 3600) % 24 = 2 /\ (probe.t \div 60) % 60 < 5

NextFn ==
    \/ ProbeRsi
    \/ ProbeAtr
    \/ ProbeScore
    \/ ProbeScoreCall
    \/ ProbeReturns
    \/ ProbePairs
    \/ ProbeAnalyzePair
    \/ ProbeRank
    \/ ProbeRecommendation
    \/ ProbeSignals
    \/ ProbeRelative
    \/ ProbeLoopBody
    \/ ProbeAlerts
    \/ ProbeHousekeeping

SpecFn == InitFn /\ [][NextFn]_vars

----------------------------------------------------------------------------
(* The running service: the scheduler's interval job, the manual trigger of *)
(* the HTTP API, the exchange and the clock.                                *)

\* the local time of day (seconds) at which the service is started: 02:04:00
StartTime == 2 * 3600 + 4 * 60

\* by how much the clock may advance in one step: to the expiry of a ticker
\* snapshot, to the expiry of a price history, and to 08:04:00
Advances == {TICKER_TTL, cache_duration, 6 * 3600}

Init ==
    /\ now = StartTime
    /\ cache = EmptyMap
    /\ cache_time = EmptyMap
    /\ is_running = FALSE
    /\ cycles = <<>>
    /\ overlapped = FALSE
    /\ disturbances = 0
    /\ probe = NoProbe

AnyExecuting == \E j \in 1..Len(cycles) : Executing(cycles[j])

\* a call of analyze_and_notify begins, by whichever trigger
Launch(trigger, db) ==
    /\ Len(cycles) < MaxCycles
    /\ db # "ok" => disturbances < MaxDisturbances
    /\ disturbances' = IF db # "ok" THEN disturbances + 1 ELSE disturbances
    /\ cycles' = Append(cycles, Run(NewCycle(trigger, db), cache, cache_time, now))
    /\ overlapped' = (overlapped \/ AnyExecuting)

\* CryptoScheduler.start(), called by the application's startup event
start ==
    /\ ~is_running
    /\ is_running' = TRUE
    /\ UNCHANGED <<now, cache, cache_time, cycles, overlapped, disturbances, probe>>

\* the interval job fires; the job store runs at most one instance of a job
\* and drops the run when that instance is still executing
IntervalTrigger ==
    /\ is_running
    /\ IF \E j \in 1..Len(cycles) :
             Executing(cycles[j]) /\ cycles[j].trigger = "interval"
       THEN UNCHANGED <<cycles, overlapped, disturbances>>
       ELSE \E db \in DbOutcomes : Launch("interval", db)
    /\ UNCHANGED <<now, cache, cache_time, is_running, probe>>

\* POST /api/analyze/now: background_tasks.add_task(scheduler.analyze_and_notify)
trigger_analysis_now ==
    /\ is_running
    /\ \E db \in DbOutcomes : Launch("manual", db)
    /\ UNCHANGED <<now, cache, cache_time, is_running, probe>>

\* the exchange answers the read cycle j waits for
ProviderReturns(j, raw) ==
    /\ Executing(cycles[j])
    /\ raw \in Answers(KeyAt(cycles[j]))
    /\ IsAnomaly(KeyAt(cycles[j]), raw) => disturbances < MaxDisturbances
    /\ disturbances' = IF IsAnomaly(KeyAt(cycles[j]), raw)
                       THEN disturbances + 1 ELSE disturbances
    /\ cache' = CacheAfter(cache, KeyAt(cycles[j]), raw)
    /\ cache_time' = CacheTimeAfter(cache_time, KeyAt(cycles[j]), raw, now)
    /\ cycles' = [cycles EXCEPT ![j] = Resume(@, cache, cache_time, raw, now)]
    /\ UNCHANGED <<now, is_running, overlapped, probe>>

ProviderAnswer ==
    \E j \in {i \in 1..Len(cycles) : Executing(cycles[i])} :
        \E raw \in Answers(KeyAt(cycles[j])) : ProviderReturns(j, raw)

\* the wall clock advances by d seconds
Tick(d) ==
    /\ disturbances < MaxDisturbances
    /\ disturbances' = disturbances + 1
    /\ now' = now + d
    /\ UNCHANGED <<cache, cache_time, is_running, cycles, overlapped, probe>>

TimePasses == \E d \in Advances : Tick(d)

Next ==
    \/ start
    \/ IntervalTrigger
    \/ trigger_analysis_now
    \/ ProviderAnswer
    \/ TimePasses

Spec == Init /\ [][Next]_vars

----------------------------------------------------------------------------
(* The service with an operator at hand: the cache is cleared, a running    *)
(* task is abandoned at the call it is suspended in.                        *)

\* CryptoDataFetcher.clear_cache()
clear_cache ==
    /\ disturbances < MaxDisturbances
    /\ disturbances' = disturbances + 1
    /\ cache' = EmptyMap
    /\ cache_time' = EmptyMap
    /\ UNCHANGED <<now, is_running, cycles, overlapped, probe>>

\* the task of cycle j is cancelled while it awaits the provider: the
\* CancelledError is not an Exception, so no handler of the cycle runs and
\* the provider's answer is dropped
Abandoned(c) == [Logged(c, [ev |-> "cancelled"]) EXCEPT !.pc = "done", !.outcome = "abandoned"]

AbandonTask ==
    /\ disturbances < MaxDisturbances
    /\ disturbances' = disturbances + 1
    /\ \E j \in {i \in 1..Len(cycles) : Executing(cycles[i])} :
          cycles' = [cycles EXCEPT ![j] = Abandoned(@)]
    /\ UNCHANGED <<now, cache, cache_time, is_running, overlapped, probe>>

NextOps ==
    \/ Next
    \/ clear_cache
    \/ AbandonTask

SpecOps == Init /\ [][NextOps]_vars

----------------------------------------------------------------------------
(* Properties of the running service. *)

\* C1: in the universe phase of a cycle, a fetch failure or a compute failure
\* for one monitored symbol (an indicator unavailable because that symbol's
\* series is short, or a zero last price) only omits that symbol: the cycle
\* does not end as an aborted cycle with a cycle-level error.
C1_UniverseFailureOnlySkips ==
    \A j \in 1..Len(cycles) :
        cycles[j].btc_analysis # NoCoin => cycles[j].outcome # "aborted"

C2_Events(c, ev) == SelectSeq(c.log, LAMBDA e : e.ev = ev)

C2_BenchmarkKeys == {TickerKey(BTC_USDT), OhlcvKey(BTC_USDT, "1h", OHLCV_LIMIT)}

\* C2: if the benchmark (BTC/USDT) snapshot or series is unavailable in a
\* cycle, that cycle aborts: no universe symbol is fetched or analysed,
\* nothing is handed to persistence, exactly one cycle-level error
\* notification is sent, the benchmark fetch is not attempted again within
\* the same cycle, and the invocation returns without raising.
C2_BenchmarkUnavailableAborts ==
    \A j \in 1..Len(cycles) :
        LET c == cycles[j]
        IN  (c.pc = "done" /\ (c.btc_data = None \/ c.btc_ohlcv = None)) =>
                /\ c.outcome = "aborted"
                /\ c.all_analysis = <<>>
                /\ c.top_pairs = <<>>
                /\ \A k \in 1..Len(c.log) :
                      /\ c.log[k].ev \in {"hit", "call", "store", "fail"}
                            => c.log[k].key \in C2_BenchmarkKeys
                      /\ c.log[k].ev \notin {"save_coin_analysis", "save_trading_pairs",
                                             "trading_signal", "cleanup_old_data",
                                             "daily_summary"}
                /\ Len(C2_Events(c, "notify")) = 1
                /\ C2_Events(c, "notify")[1].title = "System Error"
                /\ \A key \in C2_BenchmarkKeys :
                      Len(SelectSeq(c.log, LAMBDA e :
                              e.ev \in {"hit", "call"} /\ e.key = key)) = 1

\* a cycle that got the benchmark's snapshot but not its series, and aborted
C2_Witness ==
    \E j \in 1..Len(cycles) :
        /\ cycles[j].pc = "done"
        /\ cycles[j].btc_data # None
        /\ cycles[j].btc_ohlcv = None
        /\ cycles[j].outcome = "aborted"

C3_ExecutingCycles == {j \in 1..Len(cycles) : Executing(cycles[j])}

\* C3: cycles never overlap: whenever a cycle is still running and another
\* trigger fires, from the interval timer or from the manual request, that
\* trigger is skipped, so in every reachable state at most one cycle is
\* executing.
C3_NoOverlap == Cardinality(C3_ExecutingCycles) <= 1


\* the events cycle j has logged in the step
C4_NewEvents(j) ==
    LET before == IF j <= Len(cycles) THEN Len(cycles[j].log) ELSE 0
    IN  {cycles'[j].log[k] : k \in (before + 1)..Len(cycles'[j].log)}

\* 2 minutes for price histories, 30 seconds for ticker snapshots
C4_Window(key) == IF key.kind = "ohlcv" THEN 2 * 60 ELSE 30

C4_Young(key) ==
    /\ key \in DOMAIN cache'
    /\ key \in DOMAIN cache_time'
    /\ now' - cache_time'[key] < C4_Window(key)

C4_ReadStep ==
    \A j \in 1..Len(cycles') :
        /\ \A e \in C4_NewEvents(j) :
              /\ e.ev = "hit" => C4_Young(e.key) /\ e.ret = cache'[e.key]
              /\ e.ev = "call" => ~C4_Young(e.key)
              /\ e.ev = "store" =>
                    /\ e.key \in DOMAIN cache' /\ cache'[e.key] = e.ret
                    /\ cache_time'[e.key] = now' /\ e.at = now'
        \* every provider call is answered once, for the key it was made for
        /\ \A k \in 1..Len(cycles'[j].log) :
              /\ cycles'[j].log[k].ev = "call" /\ k < Len(cycles'[j].log) =>
                    /\ cycles'[j].log[k + 1].ev \in {"store", "fail"}
                    /\ cycles'[j].log[k + 1].key = cycles'[j].log[k].key
              /\ cycles'[j].log[k].ev \in {"store", "fail"} =>
                    /\ k > 1
                    /\ cycles'[j].log[k - 1].ev = "call"

\* C4: a cache read returns the stored payload without calling the provider
\* exactly when an entry for the key exists and its age is strictly below the
\* TTL of its kind (2 minutes for price histories, 30 seconds for tickers);
\* otherwise the provider is called once and, on success, the result is stored
\* with the current timestamp and returned.  A payload whose age has reached
\* the TTL is never returned.
C4_CacheReadByAge == [][C4_ReadStep]_vars

\* a cycle that found the benchmark's ticker stored by another cycle exactly
\* 30 seconds earlier, called the provider for it, and then was served the
\* benchmark's price history from the cache
C4_Witness ==
    \E i, j \in 1..Len(cycles) :
        /\ i # j
        /\ \E a \in 1..Len(cycles[i].log), b \in 1..Len(cycles[j].log) :
              /\ cycles[i].log[a].ev = "store"
              /\ cycles[i].log[a].key = TickerKey(BTC_USDT)
              /\ cycles[j].log[b].ev = "store"
              /\ cycles[j].log[b].key = TickerKey(BTC_USDT)
              /\ cycles[j].log[b].at = cycles[i].log[a].at + 30
              /\ b < Len(cycles[j].log)
              /\ cycles[j].log[b + 1].ev = "hit"
              /\ cycles[j].log[b + 1].key = OhlcvKey(BTC_USDT, "1h", OHLCV_LIMIT)


\* the failed provider answers cycle j has logged in the step
C5_NewFailures(j) ==
    LET before == IF j <= Len(cycles) THEN Len(cycles[j].log) ELSE 0
    IN  {cycles'[j].log[k] : k \in {i \in (before + 1)..Len(cycles'[j].log) :
                                        cycles'[j].log[i].ev = "fail"}}

\* a read of `key` made now would be served from the cache
C5_Served(key) ==
    /\ key \in DOMAIN cache'
    /\ key \in DOMAIN cache_time'
    /\ now' - cache_time'[key] < TTL(key)

C5_CacheUntouched == cache' = cache /\ cache_time' = cache_time

C5_FailureStep ==
    \A j \in 1..Len(cycles') :
        \A e \in C5_NewFailures(j) : C5_CacheUntouched /\ ~C5_Served(e.key)

\* C5: when the provider call fails or returns an empty or incomplete result,
\* the read returns nothing and leaves the payloads and timestamps of every key
\* unchanged, so the very next read of the same key calls the provider again.
C5_FailureNotCached == [][C5_FailureStep]_vars


\* 2 minutes for price histories, 30 seconds for ticker snapshots
C6_Window(key) == IF key.kind = "ohlcv" THEN 120 ELSE 30

\* the provider calls cycle j has made in the step
C6_NewCalls(j) ==
    LET before == IF j <= Len(cycles) THEN Len(cycles[j].log) ELSE 0
    IN  {cycles'[j].log[k] : k \in {i \in (before + 1)..Len(cycles'[j].log) :
                                        cycles'[j].log[i].ev = "call"}}

\* the provider's answers to earlier fetches of `key`, of the given outcomes
C6_Fetched(key, outcomes) ==
    UNION {{cycles'[i].log[k] : k \in {x \in 1..Len(cycles'[i].log) :
                                          /\ cycles'[i].log[x].ev \in outcomes
                                          /\ cycles'[i].log[x].key = key}} :
           i \in 1..Len(cycles')}

C6_CallStep(outcomes) ==
    ~overlapped' =>
        \A j \in 1..Len(cycles') :
            \A e \in C6_NewCalls(j) :
                \A f \in C6_Fetched(e.key, outcomes) : now' >= f.at + C6_Window(e.key)

C7_BenchmarkKeys == {TickerKey(BTC_USDT), OhlcvKey(BTC_USDT, "1h", OHLCV_LIMIT)}

C7_RegularPayload(key) ==
    Payload(key, IF key.kind = "ticker" THEN MarketTicker(key.symbol)
                 ELSE MarketOhlcv(key.symbol))

\* cycle c ended because the benchmark could not be fetched
C7_BenchmarkAborted(c) ==
    c.pc = "done" /\ c.outcome = "aborted" /\ (c.btc_data = None \/ c.btc_ohlcv = None)

\* every read of cycle c was answered, from the provider or from the cache,
\* with the regular payload, and the database accepted what it was handed
C7_Answered(c) ==
    /\ c.pc = "done"
    /\ c.db = "ok"
    /\ \A k \in 1..Len(c.log) :
          /\ c.log[k].ev # "fail"
          /\ c.log[k].ev \in {"store", "hit"} =>
                c.log[k].ret = C7_RegularPayload(c.log[k].key)

\* the benchmark keys whose fetch failed in cycle c
C7_FailedKeys(c) ==
    {c.log[k].key : k \in {x \in 1..Len(c.log) : c.log[x].ev = "fail"}}

C7_Refetched(c, key) ==
    \E k \in 1..(Len(c.log) - 1) :
        /\ c.log[k].ev = "call" /\ c.log[k].key = key
        /\ c.log[k + 1].ev = "store" /\ c.log[k + 1].key = key

\* cycle c has fetched `key` successfully
C7_StoredBy(c, key) ==
    \E k \in 1..Len(c.log) : c.log[k].ev = "store" /\ c.log[k].key = key

C7_UniverseSize == Len(SelectSeq(COINS_TO_MONITOR, LAMBDA b : b # "BTC"))

C7_CompletedNormally(c) ==
    /\ c.outcome = "completed"
    /\ c.error = ""
    /\ Len(c.all_analysis) = C7_UniverseSize
    /\ \A k \in 1..Len(c.all_analysis) : c.all_analysis[k].rank = k
    /\ \E k \in 1..(Len(c.log) - 1) :
          /\ c.log[k] = [ev |-> "save_coin_analysis", n |-> C7_UniverseSize]
          /\ c.log[k + 1] = [ev |-> "save_trading_pairs", n |-> Len(c.top_pairs)]
    /\ \A k \in 1..Len(c.log) :
          c.log[k].ev = "notify" => c.log[k].title # "System Error"

\* C7: a cycle aborted because the benchmark was unavailable leaves no state
\* that affects later cycles: a cycle triggered after the abort in which the
\* provider answers fetches the benchmark again and completes normally
\* (ranking, pair matching, persistence), and the scheduler is still running.
C7_AbortLeavesNoTrace ==
    \A i, j \in 1..Len(cycles) :
        (/\ i < j
         /\ C7_BenchmarkAborted(cycles[i])
         /\ C7_Answered(cycles[j]))
        => /\ is_running
           /\ C7_CompletedNormally(cycles[j])
           /\ \A key \in C7_FailedKeys(cycles[i]) :
                 \/ C7_Refetched(cycles[j], key)
                 \/ \E h \in 1..Len(cycles) : h \notin {i, j} /\ C7_StoredBy(cycles[h], key)

\* an aborted cycle followed, with no time passing, by a completed one
C7_Witness ==
    /\ Len(cycles) = 2
    /\ ~overlapped
    /\ C7_BenchmarkAborted(cycles[1])
    /\ C7_FailedKeys(cycles[1]) # {}
    /\ C7_Answered(cycles[2])
    /\ cycles[2].outcome = "completed"
    /\ \E k \in 1..Len(cycles[2].log) :
          /\ cycles[2].log[k].ev = "store"
          /\ cycles[2].log[k].key \in C7_FailedKeys(cycles[1])
          /\ \E x \in 1..Len(cycles[1].log) :
                cycles[1].log[x].ev = "fail" /\ cycles[1].log[x].at = cycles[2].log[k].at


\* C21: in every cycle the benchmark asset's own analysis carries a
\* benchmark-relative return vector that is zero for each of the four horizons
\* 1h, 4h, 1d and 1w.
C21_BenchmarkZeroVector ==
    \A j \in 1..Len(cycles) :
        cycles[j].btc_analysis # NoCoin =>
            \A k \in 1..Len(Horizons) :
                /\ Horizons[k] \in DOMAIN cycles[j].btc_analysis.returns_vs_btc
                /\ cycles[j].btc_analysis.returns_vs_btc[Horizons[k]] = Num(0, 1)


C24_Positions(c, ev) == {k \in 1..Len(c.log) : c.log[k].ev = ev}

C24_IsAlert(e) ==
    \/ e.ev = "trading_signal"
    \/ e.ev = "notify" /\ e.title = "Strong Signal"

\* the ranked list and the pair list are saved once each, in this order,
\* after the last read of the cycle, ranked and matched
C24_OneBatch(c) ==
    /\ Cardinality(C24_Positions(c, "save_coin_analysis")) <= 1
    /\ Cardinality(C24_Positions(c, "save_trading_pairs")) <= 1
    /\ \A k \in C24_Positions(c, "save_trading_pairs") :
          /\ k > 1
          /\ c.log[k - 1].ev = "save_coin_analysis"
          /\ c.log[k].n = Len(c.top_pairs)
          /\ c.top_pairs = find_best_pairs(c.all_analysis, 5)
    /\ \A k \in C24_Positions(c, "save_coin_analysis") :
          /\ c.pc = "done"
          /\ \A x \in 1..Len(c.log) :
                c.log[x].ev \in {"hit", "call", "store", "fail"} => x < k
          /\ c.log[k].n = Len(c.all_analysis)
          /\ \A x \in 1..Len(c.all_analysis) :
                /\ c.all_analysis[x].rank = x
                /\ x > 1 => FGe(c.all_analysis[x - 1].score, c.all_analysis[x].score)

C24_AlertsAfterSaves(c) ==
    \A a \in 1..Len(c.log) :
        C24_IsAlert(c.log[a]) =>
            \E k \in 1..(a - 1) :
                /\ k > 1
                /\ c.log[k - 1].ev = "save_coin_analysis"
                /\ c.log[k].ev = "save_trading_pairs"

C24_AbortedSavesNothing(c) ==
    c.outcome = "aborted" =>
        /\ C24_Positions(c, "save_coin_analysis") = {}
        /\ C24_Positions(c, "save_trading_pairs") = {}

\* C24: each cycle hands at most one batch to persistence: the ranked list is
\* saved once and then the pair list once, only after the universe loop,
\* ranking and pair matching of the cycle have finished; every alert of the
\* cycle (strong signal or pair) is sent only after both saves have
\* succeeded; an aborted cycle saves nothing.
C24_OneBatchPerCycle ==
    \A j \in 1..Len(cycles) :
        /\ C24_OneBatch(cycles[j])
        /\ C24_AlertsAfterSaves(cycles[j])
        /\ C24_AbortedSavesNothing(cycles[j])


\* the successful fetches of `key` that the cycles have logged
C28_Writes(key) ==
    UNION {{cycles[j].log[k] : k \in {x \in 1..Len(cycles[j].log) :
                                         /\ cycles[j].log[x].ev = "store"
                                         /\ cycles[j].log[x].key = key}} :
           j \in 1..Len(cycles)}

\* C28: cached state is never corrupted: under any interleaving of cache reads
\* from concurrently running tasks, clear_cache calls and abandonment of a
\* task at any suspension point, the payload map and the timestamp map have
\* the same key set, and the timestamp of a key is the one written together
\* with its current payload (last write wins per key).
C28_CacheConsistent ==
    /\ DOMAIN cache = DOMAIN cache_time
    /\ \A key \in DOMAIN cache :
          /\ \E w \in C28_Writes(key) : w.ret = cache[key] /\ w.at = cache_time[key]
          /\ \A w \in C28_Writes(key) : w.at <= cache_time[key]

\* two tasks ran concurrently and awaited the same key; one of them was
\* abandoned in that call, the other one's answer is in the cache
C28_Witness ==
    /\ overlapped
    /\ \E i, j \in 1..Len(cycles) :
          /\ i # j
          /\ cycles[i].outcome = "abandoned"
          /\ Len(cycles[i].log) > 1
          /\ cycles[i].log[Len(cycles[i].log) - 1].ev = "call"
          /\ cycles[i].log[Len(cycles[i].log) - 1].key \in DOMAIN cache
          /\ \E w \in C28_Writes(cycles[i].log[Len(cycles[i].log) - 1].key) :
                w \in {cycles[j].log[k] : k \in 1..Len(cycles[j].log)}


====
